---------------------------- MODULE Spec2Model ----------------------------
(***************************************************************************)
(* External reference validation of spec-up-t (validate-external-refs):    *)
(* the page lifecycle (trefs-inserted signal, settle and fallback timers), *)
(* the validation pass with its concurrent fetches and fetch cache, the    *)
(* classification of xref/tref elements and the insertion of indicators.   *)
(*                                                                         *)
(* Strings are sequences of tokens: a token is one character, or one HTML  *)
(* tag, or one of the fixed markers "#term:" / "term:" of an identifier.   *)
(***************************************************************************)
EXTENDS Integers, Sequences, FiniteSets, TLC

(***************************************************************************)
(* Bounds of the model.                                                    *)
(***************************************************************************)
MaxIndexLen == 2
MaxSignals == 1
MaxPageLen == 3
MaxStrLen == 3

(***************************************************************************)
(* Program constants.                                                      *)
(***************************************************************************)
\* setTimeout(validateExternalRefs, 100)
SettleDelay == 100
\* setTimeout(..., 3000)
FallbackDelay == 3000
\* similarityThreshold: 0.95, kept as a percentage
SimilarityThresholdPct == 95

\* cacheTimeout: 5 * 60 * 1000
CacheTimeout == 300000

VALIDATOR_CONFIG ==
    [ showValidIndicators |-> FALSE,
      cacheTimeout |-> CacheTimeout,
      similarityThresholdPct |-> SimilarityThresholdPct ]

\* JavaScript values are tagged: null, undefined, a string (token sequence), a Map
Null == [t |-> "null"]
Undefined == [t |-> "undefined"]
Rejected == [t |-> "rejected"]
Str(s) == [t |-> "string", v |-> s]
MapOf(m) == [t |-> "map", v |-> m]

\* !x for a string-or-absent value
Falsy(x) == x.t \in {"null", "undefined"} \/ (x.t = "string" /\ x.v = <<>>)

(***************************************************************************)
(* Tokens.                                                                 *)
(***************************************************************************)
Whitespace == {" ", "\n"}
Punctuation == {".", ",", ";", ":", "!", "?"}
ZeroWidth == {"zwsp"}
Tags == {"<dd>", "</dd>", "<b>", "</b>"}

toLowerCase(s) ==
    [i \in DOMAIN s |-> CASE s[i] = "A" -> "a"
                          [] s[i] = "B" -> "b"
                          [] OTHER -> s[i]]

\* character references, each written as one token, and the characters they
\* stand for
Entities == {"&lt;", "&gt;", "&amp;"}
Decoded(t) ==
    CASE t = "&lt;" -> "<"
      [] t = "&gt;" -> ">"
      [] t = "&amp;" -> "&"
      [] OTHER -> t

\* the ASCII letters that occur in the strings of the model
Letters == {"a", "b", "A", "B", "x", "y", "m", "p"}

RECURSIVE SkipMarkup(_)
\* what follows the '>' that closes the tag or comment being read; nothing
\* when the input ends inside it
SkipMarkup(s) ==
    IF s = <<>> THEN <<>>
    ELSE IF s[1] = ">" \/ s[1] \in Tags THEN Tail(s)
    ELSE SkipMarkup(Tail(s))

RECURSIVE textContent(_)
\* element.textContent of a fragment parsed from html (div.innerHTML = html):
\* tags and comments are dropped, character references are decoded.  A '<'
\* opens markup when a letter, '!', '?' or '/' follows it and is text otherwise.
textContent(html) ==
    IF html = <<>> THEN <<>>
    ELSE IF html[1] \in Tags THEN textContent(Tail(html))
    ELSE IF html[1] = "<" /\ Len(html) > 1 /\ html[2] \in Letters \cup {"!", "?"}
         THEN textContent(SkipMarkup(Tail(html)))
    ELSE IF html[1] = "<" /\ Len(html) > 2 /\ html[2] = "/"
         THEN textContent(SkipMarkup(Tail(Tail(html))))
    ELSE <<Decoded(html[1])>> \o textContent(Tail(html))

RECURSIVE CollapseWhitespace(_)
\* .replace(/\s+/g, ' ')
CollapseWhitespace(s) ==
    IF s = <<>> THEN <<>>
    ELSE IF s[1] \in Whitespace
         THEN IF Len(s) > 1 /\ s[2] \in Whitespace
              THEN CollapseWhitespace(Tail(s))
              ELSE <<" ">> \o CollapseWhitespace(Tail(s))
         ELSE <<s[1]>> \o CollapseWhitespace(Tail(s))

RECURSIVE DropLeadingWhitespace(_)
DropLeadingWhitespace(s) ==
    IF s # <<>> /\ s[1] \in Whitespace THEN DropLeadingWhitespace(Tail(s)) ELSE s

RECURSIVE NormalizePunctuation(_)
\* .replace(/\s*([.,;:!?])\s*/g, '$1 '), matches taken left to right
NormalizePunctuation(s) ==
    IF s = <<>> THEN <<>>
    ELSE LET rest == DropLeadingWhitespace(s)
         IN IF rest # <<>> /\ rest[1] \in Punctuation
            THEN <<rest[1], " ">> \o NormalizePunctuation(DropLeadingWhitespace(Tail(rest)))
            ELSE <<s[1]>> \o NormalizePunctuation(Tail(s))

RECURSIVE DropTrailingWhitespace(_)
DropTrailingWhitespace(s) ==
    IF s # <<>> /\ s[Len(s)] \in Whitespace
    THEN DropTrailingWhitespace(SubSeq(s, 1, Len(s) - 1))
    ELSE s

trim(s) == DropTrailingWhitespace(DropLeadingWhitespace(s))

\* Variant: the zero-width characters are removed last, after the trim
normalizeContent_ZeroWidthLast(html) ==
    IF Falsy(html) THEN <<>>
    ELSE SelectSeq(trim(NormalizePunctuation(CollapseWhitespace(
             toLowerCase(textContent(html.v))))), LAMBDA t : t \notin ZeroWidth)

normalizeContent(html) ==
    IF Falsy(html) THEN <<>>
    ELSE trim(NormalizePunctuation(CollapseWhitespace(
             SelectSeq(toLowerCase(textContent(html.v)), LAMBDA t : t \notin ZeroWidth))))

\* Variant: the third candidate is left out of the minimum
Min3_FirstTwo(a, b, c) == IF a <= b THEN a ELSE b

Min3(a, b, c) == IF a <= b /\ a <= c THEN a ELSE IF b <= c THEN b ELSE c

RECURSIVE MatrixRow(_, _, _, _, _)
\* row i of the matrix, filled for j = 1 .. str1.length; cur holds cells 0 .. j-1
MatrixRow(prev, cur, i, ch, str1) ==
    IF Len(cur) = Len(str1) + 1 THEN cur
    ELSE LET j == Len(cur)
             cell == IF ch = str1[j]
                     THEN prev[j]
                     ELSE Min3(prev[j] + 1, cur[j] + 1, prev[j + 1] + 1)
         IN MatrixRow(prev, Append(cur, cell), i, ch, str1)

RECURSIVE MatrixRows(_, _, _, _)
\* rows 1 .. str2.length, each one complete before the next is started
MatrixRows(prev, i, str1, str2) ==
    IF i > Len(str2) \/ Len(prev) # Len(str1) + 1 THEN prev
    ELSE MatrixRows(MatrixRow(prev, <<i>>, i, str2[i], str1), i + 1, str1, str2)

levenshteinDistance(str1, str2) ==
    MatrixRows([j \in 1..(Len(str1) + 1) |-> j - 1], 1, str1, str2)[Len(str1) + 1]

\* Variant: the first argument is taken as the longer string
calculateSimilarity_FirstIsLonger(str1, str2) ==
    IF str1 = str2 THEN [num |-> 1, den |-> 1]
    ELSE IF str1 = <<>> \/ str2 = <<>> THEN [num |-> 0, den |-> 1]
    ELSE [num |-> Len(str1) - levenshteinDistance(str2, str1), den |-> Len(str1)]

\* The similarity ratio as the fraction num / den
calculateSimilarity(str1, str2) ==
    IF str1 = str2 THEN [num |-> 1, den |-> 1]
    ELSE IF str1 = <<>> \/ str2 = <<>> THEN [num |-> 0, den |-> 1]
    ELSE LET longer == IF Len(str1) > Len(str2) THEN str1 ELSE str2
             shorter == IF Len(str1) > Len(str2) THEN str2 ELSE str1
             editDistance == levenshteinDistance(shorter, longer)
         IN [num |-> Len(longer) - editDistance, den |-> Len(longer)]

\* Variant: the comparison with the threshold is reversed
BelowThreshold_Reversed(similarity) ==
    similarity.num * 100 > VALIDATOR_CONFIG.similarityThresholdPct * similarity.den

\* Variant: a similarity equal to the threshold counts as below it
BelowThreshold_OrEqual(similarity) ==
    similarity.num * 100 <= VALIDATOR_CONFIG.similarityThresholdPct * similarity.den

\* similarity < VALIDATOR_CONFIG.similarityThreshold
BelowThreshold(similarity) ==
    similarity.num * 100 < VALIDATOR_CONFIG.similarityThresholdPct * similarity.den

(***************************************************************************)
(* Term extraction from a fetched page.  A page is the sequence of child   *)
(* elements of dl.terms-and-definitions-list: dt nodes carry the id of     *)
(* their term span (<<>> when no descendant has an id starting "term:"),   *)
(* dd nodes their inner HTML and whether they are meta-info wrappers.      *)
(***************************************************************************)
DT(id) == [tag |-> "DT", id |-> id, meta |-> FALSE, html |-> <<>>]
DD(html) == [tag |-> "DD", id |-> <<>>, meta |-> FALSE, html |-> html]
MetaDD(html) == [tag |-> "DD", id |-> <<>>, meta |-> TRUE, html |-> html]

RECURSIVE LastSegment(_)
\* id.split(':').pop(); the marker token "term:" ends with a colon
LastSegment(id) ==
    IF id = <<>> THEN <<>>
    ELSE IF id[Len(id)] \in {":", "term:", "#term:"} THEN <<>>
    ELSE LastSegment(SubSeq(id, 1, Len(id) - 1)) \o <<id[Len(id)]>>

RECURSIVE Join(_, _)
\* Array.prototype.join with a one-token separator
Join(parts, sep) ==
    IF parts = <<>> THEN <<>>
    ELSE IF Len(parts) = 1 THEN parts[1]
    ELSE parts[1] \o <<sep>> \o Join(Tail(parts), sep)

RECURSIVE FollowingDDs_StopAtMeta(_, _)
\* Variant: a meta-info wrapper ends the run of dd siblings
FollowingDDs_StopAtMeta(page, k) ==
    IF k > Len(page) \/ page[k].tag # "DD" \/ page[k].meta THEN <<>>
    ELSE <<page[k]>> \o FollowingDDs_StopAtMeta(page, k + 1)

RECURSIVE FollowingDDs(_, _)
\* while (sibling && sibling.tagName === 'DD'), skipping meta-info wrappers
FollowingDDs(page, k) ==
    IF k > Len(page) \/ page[k].tag # "DD" THEN <<>>
    ELSE (IF page[k].meta THEN <<>> ELSE <<page[k]>>) \o FollowingDDs(page, k + 1)

outerHTML(dd) == <<"<dd>">> \o dd.html \o <<"</dd>">>

MapSet(m, key, val) == [k \in DOMAIN m \cup {key} |-> IF k = key THEN val ELSE m[k]]
MapGet(m, key) == IF key \in DOMAIN m THEN m[key] ELSE Undefined
EmptyMap == [k \in {} |-> Undefined]

RECURSIVE ExtractFrom_CaseSensitive(_, _, _)
\* Variant: the key is the term name as written
ExtractFrom_CaseSensitive(page, k, terms) ==
    IF k > Len(page) THEN terms
    ELSE IF page[k].tag # "DT" \/ page[k].id = <<>>
    THEN ExtractFrom_CaseSensitive(page, k + 1, terms)
    ELSE LET ddElements == FollowingDDs(page, k + 1)
         IN ExtractFrom_CaseSensitive(page, k + 1,
                MapSet(terms, LastSegment(page[k].id),
                       [ t |-> "term",
                         content |-> trim(Join([i \in DOMAIN ddElements |->
                                          textContent(ddElements[i].html)], "\n")),
                         rawContent |-> Join([i \in DOMAIN ddElements |->
                                          outerHTML(ddElements[i])], "\n"),
                         termId |-> page[k].id ]))

RECURSIVE ExtractFrom(_, _, _)
ExtractFrom(page, k, terms) ==
    IF k > Len(page) THEN terms
    ELSE IF page[k].tag # "DT" \/ page[k].id = <<>> THEN ExtractFrom(page, k + 1, terms)
    ELSE LET termId == page[k].id
             termName == LastSegment(termId)
             ddElements == FollowingDDs(page, k + 1)
             rawContent == Join([i \in DOMAIN ddElements |-> outerHTML(ddElements[i])], "\n")
             definitionContent ==
                 Join([i \in DOMAIN ddElements |-> textContent(ddElements[i].html)], "\n")
         IN ExtractFrom(page, k + 1,
                MapSet(terms, toLowerCase(termName),
                       [ t |-> "term",
                         content |-> trim(definitionContent),
                         rawContent |-> rawContent,
                         termId |-> termId ]))

extractTermsFromHtml(html) == ExtractFrom(html, 1, EmptyMap)

(***************************************************************************)
(* Indicators.                                                             *)
(***************************************************************************)
OtherElement == [kind |-> "element"]

IsIndicator(e) == e.kind = "indicator"

\* split on runs of newlines, blank lines dropped
RECURSIVE Lines(_, _)
Lines(text, cur) ==
    IF text = <<>> THEN (IF trim(cur) = <<>> THEN <<>> ELSE <<cur>>)
    ELSE IF text[1] = "\n"
         THEN (IF trim(cur) = <<>> THEN <<>> ELSE <<cur>>) \o Lines(Tail(text), <<>>)
         ELSE Lines(Tail(text), Append(cur, text[1]))

\* Variant: the lines are compared without their surrounding whitespace
Includes_Trimmed(lines, line) == \E i \in DOMAIN lines : trim(lines[i]) = trim(line)

Includes(lines, line) == \E i \in DOMAIN lines : lines[i] = line

findTextDifferences(text1, text2) ==
    LET lines1 == Lines(text1, <<>>)
        lines2 == Lines(text2, <<>>)
        oldUnique == SelectSeq(lines1, LAMBDA l : ~Includes(lines2, l))
        newUnique == SelectSeq(lines2, LAMBDA l : ~Includes(lines1, l))
    IN [ oldUnique |-> IF Len(oldUnique) > 0 THEN Join(oldUnique, "\n")
                       ELSE <<"(no removed content)">>,
         newUnique |-> IF Len(newUnique) > 0 THEN Join(newUnique, "\n")
                       ELSE <<"(no added content)">>,
         hasDifferences |-> Len(oldUnique) > 0 \/ Len(newUnique) > 0 ]

\* Variant: '>' is left as it is
Escaped_KeepsGreaterThan(t) ==
    CASE t = "<" -> <<"&lt;">>
      [] t = "&" -> <<"&amp;">>
      [] OTHER -> <<t>>

\* the serialization of one character of a text node; a tag or a character
\* reference written as one token is serialized character by character
Escaped(t) ==
    CASE t = "<" -> <<"&lt;">>
      [] t = ">" -> <<"&gt;">>
      [] t = "&" -> <<"&amp;">>
      [] t = "<dd>" -> <<"&lt;", "dd", "&gt;">>
      [] t = "</dd>" -> <<"&lt;", "/dd", "&gt;">>
      [] t = "<b>" -> <<"&lt;", "b", "&gt;">>
      [] t = "</b>" -> <<"&lt;", "/b", "&gt;">>
      [] t = "&lt;" -> <<"&amp;", "lt;">>
      [] t = "&gt;" -> <<"&amp;", "gt;">>
      [] t = "&amp;" -> <<"&amp;", "amp;">>
      [] OTHER -> <<t>>

RECURSIVE escapeHtml(_)
\* div.textContent = text; return div.innerHTML
escapeHtml(text) ==
    IF text = <<>> THEN <<>> ELSE Escaped(text[1]) \o escapeHtml(Tail(text))

truncateText(text, maxLength) ==
    IF Len(text) <= maxLength THEN text
    ELSE SubSeq(text, 1, maxLength) \o <<"...">>

\* The tags of the template literals, one token each
TemplateTags ==
    { "<div header>", "<div similarity>", "<div section>", "<div old>", "<div new>",
      "<div footer>", "</div>", "<strong>", "</strong>", "<em>", "</em>" }

similarityText(details) ==
    IF Falsy(details.similarity) THEN <<>>
    ELSE <<"<div similarity>", "Similarity: ">> \o details.similarity.v \o <<"</div>">>

Section(label, open, content) ==
    <<"<div section>", "<strong>", label, "</strong>", open>> \o content
        \o <<"</div>", "</div>">>

\* detailsDiv.innerHTML of a changed indicator
ChangedPanel(details) ==
    LET diff == findTextDifferences(details.oldContent.v, details.newContent.v)
        footer == <<"<div footer>", "<em>", "Rebuild the spec to update the definition",
                    "</em>", "</div>">>
    IN IF diff.hasDifferences
       THEN <<"<div header>", "Definition Changed - Showing Differences", "</div>">>
            \o similarityText(details)
            \o Section("Removed from cached version:", "<div old>",
                       escapeHtml(truncateText(diff.oldUnique, 300)))
            \o Section("Added in live version:", "<div new>",
                       escapeHtml(truncateText(diff.newUnique, 300)))
            \o footer
       ELSE <<"<div header>", "Definition Changed", "</div>">>
            \o similarityText(details)
            \o Section("Cached (at build time):", "<div old>",
                       escapeHtml(truncateText(details.oldContent.v, 500)))
            \o Section("Current (live):", "<div new>",
                       escapeHtml(truncateText(details.newContent.v, 500)))
            \o footer

\* detailsDiv.innerHTML of a missing indicator
MissingPanel ==
    << "<div header>", "Term Not Found", "</div>", "<div section>",
       "The term referenced here no longer exists in the external specification.",
       "</div>", "<div footer>", "<em>",
       "Check the external specification for updates", "</em>", "</div>" >>

\* details: [oldContent, newContent, similarity] (strings) or Undefined fields;
\* panel is the innerHTML of the validation-details child, <<>> without one
createIndicator(type, details) ==
    LET changed == /\ type = "changed"
                   /\ ~Falsy(details.oldContent)
                   /\ ~Falsy(details.newContent)
    IN [ kind |-> "indicator",
         type |-> type,
         hasDetails |-> changed \/ type = "missing",
         panel |-> IF changed THEN ChangedPanel(details)
                   ELSE IF type = "missing" THEN MissingPanel
                   ELSE <<>>,
         by |-> 0 ]

NoDetails == [oldContent |-> Undefined, newContent |-> Undefined, similarity |-> Undefined]

extractTextFromHtml(html) == textContent(html)

\* Variant: the next sibling is not inspected before the insertion
insertIndicatorAfterElement_Unguarded(element, indicator) ==
    [element EXCEPT !.after = <<indicator>> \o element.after]

\* An xref anchor: [href, after], after being the element siblings that follow it
insertIndicatorAfterElement(element, indicator) ==
    IF element.after # <<>> /\ IsIndicator(element.after[1]) THEN element
    ELSE [element EXCEPT !.after = <<indicator>> \o element.after]

\* Variant: the term-name element is not searched before the insertion
insertIndicatorIntoTref_Unguarded(dtElement, indicator) ==
    IF ~dtElement.hasTermSpan THEN dtElement
    ELSE [dtElement EXCEPT !.span = Append(dtElement.span, indicator)]

\* A tref dt: [id, originalTerm, hasTermSpan, span], span being the element
\* descendants of its span.term-external (<<>> when it has no such span)
insertIndicatorIntoTref(dtElement, indicator) ==
    IF ~dtElement.hasTermSpan THEN dtElement
    ELSE IF \E i \in DOMAIN dtElement.span : IsIndicator(dtElement.span[i]) THEN dtElement
    ELSE [dtElement EXCEPT !.span = Append(dtElement.span, indicator)]

(***************************************************************************)
(* Classification of one reference element.  Each validator returns the    *)
(* element as it leaves it and the branch it took (outcome).               *)
(***************************************************************************)
\* (similarity * 100).toFixed(1) + '%'
toFixed1Percent(similarity) ==
    LET tenths == (2000 * similarity.num + similarity.den) \div (2 * similarity.den)
    IN <<ToString(tenths \div 10), ".", ToString(tenths % 10), "%">>

ChangedDetails(cachedXtref, liveTerm, similarity) ==
    [ similarity |-> Str(toFixed1Percent(similarity)),
      oldContent |-> IF ~Falsy(cachedXtref.content)
                     THEN Str(extractTextFromHtml(cachedXtref.content.v))
                     ELSE Str(<<"No cached content">>),
      newContent |-> IF liveTerm.content # <<>> THEN Str(liveTerm.content)
                     ELSE Str(<<"No live content">>) ]

By(indicator, p) == [indicator EXCEPT !.by = p]

validateXref(element, liveData, cachedXtref, p) ==
    IF cachedXtref.t # "entry" \/ cachedXtref.ghPageUrl = ""
    THEN [el |-> element, outcome |-> "skipped"]
    ELSE LET liveTerms == MapGet(liveData, cachedXtref.ghPageUrl)
         IN IF liveTerms.t = "null"
            THEN [ el |-> insertIndicatorAfterElement(element,
                              By(createIndicator("error", NoDetails), p)),
                   outcome |-> "error" ]
            ELSE IF liveTerms.t # "map"
            THEN [el |-> element, outcome |-> "pending"]
            ELSE LET termKey == toLowerCase(cachedXtref.term)
                     liveTerm == MapGet(liveTerms.v, termKey)
                 IN IF liveTerm.t # "term"
                    THEN [ el |-> insertIndicatorAfterElement(element,
                                      By(createIndicator("missing", NoDetails), p)),
                           outcome |-> "missing" ]
                    ELSE LET cachedNormalized == normalizeContent(cachedXtref.content)
                             liveNormalized == normalizeContent(Str(liveTerm.rawContent))
                             similarity == calculateSimilarity(cachedNormalized, liveNormalized)
                         IN IF BelowThreshold(similarity)
                            THEN [ el |-> insertIndicatorAfterElement(element,
                                       By(createIndicator("changed",
                                              ChangedDetails(cachedXtref, liveTerm,
                                                             similarity)), p)),
                                   outcome |-> "changed" ]
                            ELSE IF VALIDATOR_CONFIG.showValidIndicators
                            THEN [ el |-> insertIndicatorAfterElement(element,
                                       By(createIndicator("valid", NoDetails), p)),
                                   outcome |-> "valid" ]
                            ELSE [el |-> element, outcome |-> "valid"]

validateTref(element, liveData, cachedXtref, p) ==
    IF cachedXtref.t # "entry" \/ cachedXtref.ghPageUrl = ""
    THEN [el |-> element, outcome |-> "skipped"]
    ELSE LET liveTerms == MapGet(liveData, cachedXtref.ghPageUrl)
         IN IF liveTerms.t = "null"
            THEN [ el |-> insertIndicatorIntoTref(element,
                              By(createIndicator("error", NoDetails), p)),
                   outcome |-> "error" ]
            ELSE IF liveTerms.t # "map"
            THEN [el |-> element, outcome |-> "pending"]
            ELSE LET termKey == toLowerCase(cachedXtref.term)
                     liveTerm == MapGet(liveTerms.v, termKey)
                 IN IF liveTerm.t # "term"
                    THEN [ el |-> insertIndicatorIntoTref(element,
                                      By(createIndicator("missing", NoDetails), p)),
                           outcome |-> "missing" ]
                    ELSE LET cachedNormalized == normalizeContent(cachedXtref.content)
                             liveNormalized == normalizeContent(Str(liveTerm.rawContent))
                             similarity == calculateSimilarity(cachedNormalized, liveNormalized)
                         IN IF BelowThreshold(similarity)
                            THEN [ el |-> insertIndicatorIntoTref(element,
                                       By(createIndicator("changed",
                                              ChangedDetails(cachedXtref, liveTerm,
                                                             similarity)), p)),
                                   outcome |-> "changed" ]
                            ELSE IF VALIDATOR_CONFIG.showValidIndicators
                            THEN [ el |-> insertIndicatorIntoTref(element,
                                       By(createIndicator("valid", NoDetails), p)),
                                   outcome |-> "valid" ]
                            ELSE [el |-> element, outcome |-> "valid"]

(***************************************************************************)
(* The reference index and the matchers.  index is the global allXTrefs:   *)
(* [t |-> "undefined"], [t |-> "object"] (no xtrefs property) or           *)
(* [t |-> "index", xtrefs |-> <<entry, ...>>].                             *)
(***************************************************************************)
HasXtrefs(index) == index.t = "index"

\* Array.prototype.find, given the positions at which the test succeeds
Find(seq, matching) ==
    IF matching = {} THEN Undefined
    ELSE seq[CHOOSE i \in matching : \A j \in matching : i <= j]

RECURSIVE CollectFrom(_, _, _)
CollectFrom(xtrefs, k, specs) ==
    IF k > Len(xtrefs) THEN specs
    ELSE LET xtref == xtrefs[k]
         IN IF xtref.ghPageUrl # "" /\ ~\E i \in DOMAIN specs : specs[i].url = xtref.ghPageUrl
            THEN CollectFrom(xtrefs, k + 1,
                     Append(specs, [url |-> xtref.ghPageUrl, specName |-> xtref.externalSpec]))
            ELSE CollectFrom(xtrefs, k + 1, specs)

\* Variant: one descriptor per entry that has a URL, without the specs.has() test
collectExternalSpecs_PerEntry(index) ==
    IF ~HasXtrefs(index) THEN <<>>
    ELSE LET withUrl == SelectSeq(index.xtrefs, LAMBDA x : x.ghPageUrl # "")
         IN [i \in DOMAIN withUrl |->
                [url |-> withUrl[i].ghPageUrl, specName |-> withUrl[i].externalSpec]]

\* The Map of descriptors in insertion order
collectExternalSpecs(index) ==
    IF ~HasXtrefs(index) THEN <<>> ELSE CollectFrom(index.xtrefs, 1, <<>>)

\* localHref.match(/#term:([^:]+):(.+)/) on a href whose marker token, if any,
\* is its first token: [spec, term] or Null
MatchLocalHref(localHref) ==
    IF Len(localHref) < 4 \/ localHref[1] # "#term:" \/ localHref[2] = ":" THEN Null
    ELSE LET colons == {k \in 3..Len(localHref) : localHref[k] = ":"}
         IN IF colons = {} THEN Null
            ELSE LET k == CHOOSE c \in colons : \A d \in colons : c <= d
                 IN IF k = Len(localHref) THEN Null
                    ELSE [ t |-> "match",
                           specName |-> SubSeq(localHref, 2, k - 1),
                           termName |-> SubSeq(localHref, k + 1, Len(localHref)) ]

\* Variant: the entry is looked up by its term alone
findCachedXtrefForXref_AnySpec(index, element) ==
    IF ~HasXtrefs(index) THEN Null
    ELSE LET match == MatchLocalHref(element.href)
         IN IF match.t # "match" THEN Null
            ELSE Find(index.xtrefs,
                      {i \in DOMAIN index.xtrefs :
                          toLowerCase(index.xtrefs[i].term) = toLowerCase(match.termName)})

findCachedXtrefForXref(index, element) ==
    IF ~HasXtrefs(index) THEN Null
    ELSE LET match == MatchLocalHref(element.href)
         IN IF match.t # "match" THEN Null
            ELSE Find(index.xtrefs,
                      {i \in DOMAIN index.xtrefs :
                          /\ index.xtrefs[i].externalSpec = match.specName
                          /\ toLowerCase(index.xtrefs[i].term) = toLowerCase(match.termName)})

\* Variant: the source files of the entry are not inspected
findCachedXtrefForTref_AnySource(index, element) ==
    IF ~HasXtrefs(index) THEN Null
    ELSE IF element.originalTerm.t # "string" THEN Null
    ELSE Find(index.xtrefs,
              {i \in DOMAIN index.xtrefs :
                  toLowerCase(index.xtrefs[i].term) = toLowerCase(element.originalTerm.v)})

\* element.originalTerm: the data-original-term of the nearest descendant or
\* ancestor carrying one, Undefined when there is none
findCachedXtrefForTref(index, element) ==
    IF ~HasXtrefs(index) THEN Null
    ELSE IF element.originalTerm.t # "string" THEN Null
    ELSE Find(index.xtrefs,
              {i \in DOMAIN index.xtrefs :
                  /\ toLowerCase(index.xtrefs[i].term) = toLowerCase(element.originalTerm.v)
                  /\ \E k \in DOMAIN index.xtrefs[i].sourceFiles :
                        index.xtrefs[i].sourceFiles[k] = "tref"})

(***************************************************************************)
(* Inputs: the entries an index is built from, the documents, the pages    *)
(* an external site may serve, and the instants at which the clock is      *)
(* observed (milliseconds since initializeValidator).                      *)
(***************************************************************************)
Entry(spec, term, url, content, sourceFiles) ==
    [ t |-> "entry", externalSpec |-> spec, term |-> term, ghPageUrl |-> url,
      content |-> content, sourceFiles |-> sourceFiles ]

EntryList ==
    << Entry(<<"specA">>, <<"A">>, "u1", Str(<<"<dd>", "a", " ", "</dd>">>), <<"xref">>),
       Entry(<<"specB">>, <<"B">>, "u1", Str(<<"<dd>", "a", "</dd>">>), <<"xref", "tref">>),
       Entry(<<"specB">>, <<"a">>, "u2", Str(<<"<dd>", "a", "</dd>">>), <<"tref">>),
       Entry(<<"specA">>, <<"a">>, "", Undefined, <<"tref">>) >>

Urls == {"u1", "u2"}

\* the entries of EntryList at the positions pos, in their order
RECURSIVE Pick(_, _)
Pick(pos, k) ==
    IF k > Len(EntryList) THEN <<>>
    ELSE (IF k \in pos THEN <<EntryList[k]>> ELSE <<>>) \o Pick(pos, k + 1)

\* every index of at most MaxIndexLen entries, and the two malformed shapes
IndexPool ==
    {[t |-> "undefined"], [t |-> "object"]} \cup
    { [t |-> "index", xtrefs |-> Pick(pos, 1)] :
        pos \in {q \in SUBSET DOMAIN EntryList : Cardinality(q) <= MaxIndexLen} }

IndexUrls(idx) ==
    IF idx.t # "index" THEN {}
    ELSE {idx.xtrefs[i].ghPageUrl : i \in DOMAIN idx.xtrefs} \ {""}

Anchor(href, after) == [href |-> href, after |-> after]
TermDt(id, originalTerm, hasTermSpan) ==
    [ id |-> id, originalTerm |-> originalTerm, hasTermSpan |-> hasTermSpan,
      span |-> <<>> ]

\* the document: its xref anchors and its tref dt elements
Document ==
    [ xrefs |-> << Anchor(<<"#term:", "specA", ":", "a">>, <<>>),
                   Anchor(<<"#term:", "specB", ":", "b">>, <<OtherElement>>),
                   Anchor(<<"#", "specA">>, <<OtherElement>>) >>,
      trefs |-> << TermDt(<<"term:", "specB", ":", "a">>, Str(<<"a">>), TRUE),
                   TermDt(<<"term:", "specB", ":", "B">>, Str(<<"B">>), TRUE),
                   TermDt(<<"term:", "specB", ":", "a">>, Undefined, TRUE),
                   TermDt(<<"term:", "specB", ":", "b">>, Str(<<"b">>), FALSE) >> ]

PagePool ==
    { << DT(<<"term:", "specA", ":", "a">>), DD(<<"A">>),
         DT(<<"term:", "specA", ":", "B">>), MetaDD(<<"a">>), DD(<<"b">>) >>,
      << >> }

TimePoints == {0, 100, 3000, 3100}
\* instants around the expiry of a cache entry written at 3000 or 3100
LatePoints == {303000, 303100}

(***************************************************************************)
(* State.                                                                  *)
(***************************************************************************)
VARIABLES
    index,       \* the global allXTrefs
    xrefs,       \* document.querySelectorAll('a.x-term-reference'), in order
    trefs,       \* document.querySelectorAll('dt.term-external'), in order
    fetchCache,  \* url -> Undefined or [t |-> "entry", timestamp, data]
    now,         \* Date.now()
    signals,     \* the times at which 'trefs-inserted' was dispatched
    timers,      \* pending setTimeout callbacks
    passes,      \* the validateExternalRefs invocations, in start order
    call,        \* a call of one of the helper functions: [fn, args, ret]
    install      \* the post-install script: [pc, packageJson, response, log]

vars == <<index, xrefs, trefs, fetchCache, now, signals, timers, passes, call,
          install>>

\* no helper function is being called on its own
NoCall == [fn |-> "none"]

\* the post-install script is not running
NoInstall == [pc |-> "none"]

(***************************************************************************)
(* fetchExternalSpec, cut at its two suspension points.                    *)
(***************************************************************************)
\* Variant: an entry whose age equals the timeout still counts as fresh
CacheFresh_Inclusive(cache, ghPageUrl, t) ==
    /\ cache[ghPageUrl].t = "entry"
    /\ (t - cache[ghPageUrl].timestamp) <= VALIDATOR_CONFIG.cacheTimeout

CacheFresh(cache, ghPageUrl, t) ==
    /\ cache[ghPageUrl].t = "entry"
    /\ (t - cache[ghPageUrl].timestamp) < VALIDATOR_CONFIG.cacheTimeout

Pending(st) == [st |-> st, result |-> Undefined]
Settled(result) == [st |-> "settled", result |-> result]

\* return null, after the warning
FetchFailed == Settled(Null)

\* from the call to the first await
FetchCall(cache, ghPageUrl, t) ==
    IF CacheFresh(cache, ghPageUrl, t)
    THEN Settled(MapOf(cache[ghPageUrl].data))
    ELSE Pending("request")

\* Variant: a failed request is thrown to the caller instead of being caught
FetchResponse_Throws(kind) ==
    IF kind = "ok" THEN Pending("body") ELSE Settled(Rejected)

\* await fetch(...) settles: kind is "ok", "http" (non-2xx) or "transport" (it rejects)
FetchResponse(kind) ==
    IF kind = "ok" THEN Pending("body") ELSE FetchFailed

\* Variant: a failure drops the cache entry of the URL
FetchBody_DropsEntry(cache, ghPageUrl, t, body) ==
    IF body.t = "page"
    THEN LET terms == extractTermsFromHtml(body.page)
         IN [ fetch |-> Settled(MapOf(terms)),
              cache |-> [cache EXCEPT ![ghPageUrl] =
                            [t |-> "entry", timestamp |-> t, data |-> terms]] ]
    ELSE [fetch |-> FetchFailed, cache |-> [cache EXCEPT ![ghPageUrl] = Undefined]]

\* await response.text() settles and the body is parsed: body is a page, or
\* "body" (text() rejects) or "parse" (the extraction throws)
FetchBody(cache, ghPageUrl, t, body) ==
    IF body.t = "page"
    THEN LET terms == extractTermsFromHtml(body.page)
         IN [ fetch |-> Settled(MapOf(terms)),
              cache |-> [cache EXCEPT ![ghPageUrl] =
                            [t |-> "entry", timestamp |-> t, data |-> terms]] ]
    ELSE [fetch |-> FetchFailed, cache |-> cache]

Bodies == {[t |-> "page", page |-> pg] : pg \in PagePool} \cup {[t |-> "body"], [t |-> "parse"]}

(***************************************************************************)
(* validateExternalRefs.                                                   *)
(***************************************************************************)
\* Variant: the pass resumes as soon as one fetch has settled
AllSettled_Any(pass) == \E u \in DOMAIN pass.fetch : pass.fetch[u].st = "settled"

\* await Promise.all(fetchPromises) resumes
AllSettled(pass) == \A u \in DOMAIN pass.fetch : pass.fetch[u].st = "settled"

\* Promise.all rejects as soon as one promise rejects
SomeRejected(pass) == \E u \in DOMAIN pass.fetch : pass.fetch[u].result.t = "rejected"

DescriptorUrls(specs) == {specs[i].url : i \in DOMAIN specs}

\* the two forEach loops over the reference elements
ValidateXrefs(liveData, p, xr) ==
    [i \in DOMAIN xr |->
        LET cachedXtref == findCachedXtrefForXref(index, xr[i])
        IN IF cachedXtref.t = "entry"
           THEN validateXref(xr[i], liveData, cachedXtref, p)
           ELSE [el |-> xr[i], outcome |-> "unresolved"]]

ValidateTrefs(liveData, p, tr) ==
    [i \in DOMAIN tr |->
        LET cachedXtref == findCachedXtrefForTref(index, tr[i])
        IN IF cachedXtref.t = "entry"
           THEN validateTref(tr[i], liveData, cachedXtref, p)
           ELSE [el |-> tr[i], outcome |-> "unresolved"]]

Validated(pass, xr, tr, xres, tres) ==
    [ pass |-> [pass EXCEPT
                  !.phase = "done",
                  !.xout = [i \in DOMAIN xr |-> xres[i].outcome],
                  !.tout = [i \in DOMAIN tr |-> tres[i].outcome],
                  !.event = [ t |-> "event",
                              specsValidated |-> Len(pass.specs),
                              xrefsValidated |-> Len(xr),
                              trefsValidated |-> Len(tr) ]],
      xrefs |-> [i \in DOMAIN xr |-> xres[i].el],
      trefs |-> [i \in DOMAIN tr |-> tres[i].el] ]

LiveData(pass) == [u \in DOMAIN pass.fetch |-> pass.fetch[u].result]

\* the part of validateExternalRefs after the await, on the resumed pass p
Validate(pass, p, xr, tr) ==
    Validated(pass, xr, tr,
              ValidateXrefs(LiveData(pass), p, xr), ValidateTrefs(LiveData(pass), p, tr))

\* what runs, without a further suspension, once a fetch of pass p has settled
Resume(pass, p, xr, tr) ==
    IF pass.phase # "fetching" THEN [pass |-> pass, xrefs |-> xr, trefs |-> tr]
    ELSE IF SomeRejected(pass)
    THEN [pass |-> [pass EXCEPT !.phase = "failed"], xrefs |-> xr, trefs |-> tr]
    ELSE IF AllSettled(pass) THEN Validate(pass, p, xr, tr)
    ELSE [pass |-> pass, xrefs |-> xr, trefs |-> tr]

\* validateExternalRefs up to its await (and beyond it when nothing is pending)
Begin(cause, sig, p) ==
    LET specs == collectExternalSpecs(index)
        blank == [ cause |-> cause, start |-> now, sig |-> sig, specs |-> specs,
                   calls |-> <<>>, fetch |-> [u \in {} |-> Undefined], phase |-> "noop",
                   xout |-> <<>>, tout |-> <<>>, event |-> Undefined ]
    IN IF Len(specs) = 0 THEN [pass |-> blank, xrefs |-> xrefs, trefs |-> trefs]
       ELSE Resume([blank EXCEPT
                      !.calls = [i \in DOMAIN specs |-> specs[i].url],
                      !.fetch = [u \in DescriptorUrls(specs) |-> FetchCall(fetchCache, u, now)],
                      !.phase = "fetching"],
                   p, xrefs, trefs)

StartPass(cause, sig) ==
    \E r \in {Begin(cause, sig, Len(passes) + 1)} :
       /\ passes' = Append(passes, r.pass)
       /\ xrefs' = r.xrefs
       /\ trefs' = r.trefs

(***************************************************************************)
(* Actions.                                                                *)
(***************************************************************************)
InitWith(indexes) ==
    /\ index \in indexes
    /\ xrefs = Document.xrefs
    /\ trefs = Document.trefs
    /\ fetchCache = [u \in Urls |-> Undefined]
    /\ now = 0
    /\ signals = <<>>
    \* initializeValidator: the listener is registered, the fallback is armed
    /\ timers = {[kind |-> "fallback", due |-> FallbackDelay, sig |-> 0]}
    /\ passes = <<>>
    /\ call = NoCall
    /\ install = NoInstall

\* Time passes to the next observed instant; a timer that is due runs first
AdvanceOver(points) ==
    /\ \A tm \in timers : tm.due > now
    /\ \E t \in points : /\ t > now
                         /\ \A t2 \in points : ~(now < t2 /\ t2 < t)
                         /\ now' = t
    /\ UNCHANGED <<install, call, index, xrefs, trefs, fetchCache, signals, timers, passes>>

Advance == AdvanceOver(TimePoints)

AdvanceLate == AdvanceOver(TimePoints \cup LatePoints)

\* Variant: the listener schedules the pass without the settle delay
TrefsInserted_NoDelay ==
    /\ Len(signals) < MaxSignals
    /\ signals' = Append(signals, now)
    /\ timers' = timers \cup {[kind |-> "settle", due |-> now, sig |-> Len(signals) + 1]}
    /\ UNCHANGED <<install, call, index, xrefs, trefs, fetchCache, now, passes>>

\* the 'trefs-inserted' listener
TrefsInserted ==
    /\ Len(signals) < MaxSignals
    /\ signals' = Append(signals, now)
    /\ timers' = timers \cup
          {[kind |-> "settle", due |-> now + SettleDelay, sig |-> Len(signals) + 1]}
    /\ UNCHANGED <<install, call, index, xrefs, trefs, fetchCache, now, passes>>

\* setTimeout(validateExternalRefs, 100) fires
SettleTimer ==
    \E tm \in timers :
        /\ tm.kind = "settle"
        /\ tm.due <= now
        \* timers run in the order of their due times
        /\ \A other \in timers : other.due >= tm.due
        /\ timers' = timers \ {tm}
        /\ StartPass("settle", tm.sig)
        /\ UNCHANGED <<install, call, index, fetchCache, now, signals>>

\* document.querySelector('.' + VALIDATOR_CONFIG.classes.indicator)
HasIndicator(xr, tr) ==
    \/ \E i \in DOMAIN xr : \E k \in DOMAIN xr[i].after : IsIndicator(xr[i].after[k])
    \/ \E i \in DOMAIN tr : \E k \in DOMAIN tr[i].span : IsIndicator(tr[i].span[k])

\* the fallback setTimeout(..., 3000) fires
FallbackTimer ==
    \E tm \in timers :
        /\ tm.kind = "fallback"
        /\ tm.due <= now
        /\ \A other \in timers : other.due >= tm.due
        /\ timers' = timers \ {tm}
        /\ IF HasIndicator(xrefs, trefs)
           THEN UNCHANGED <<xrefs, trefs, passes>>
           ELSE StartPass("fallback", 0)
        /\ UNCHANGED <<install, call, index, fetchCache, now, signals>>

Settle(p, u, fetch) ==
    \E r \in {Resume([passes[p] EXCEPT !.fetch[u] = fetch], p, xrefs, trefs)} :
       /\ passes' = [passes EXCEPT ![p] = r.pass]
       /\ xrefs' = r.xrefs
       /\ trefs' = r.trefs

ResponseArrives ==
    \E p \in DOMAIN passes : \E u \in DOMAIN passes[p].fetch :
        /\ passes[p].fetch[u].st = "request"
        /\ \E kind \in {"ok", "http", "transport"} : Settle(p, u, FetchResponse(kind))
        /\ UNCHANGED <<install, call, index, fetchCache, now, signals, timers>>

BodyArrives ==
    \E p \in DOMAIN passes : \E u \in DOMAIN passes[p].fetch :
        /\ passes[p].fetch[u].st = "body"
        /\ \E body \in Bodies :
             \E r \in {FetchBody(fetchCache, u, now, body)} :
                /\ fetchCache' = r.cache
                /\ Settle(p, u, r.fetch)
        /\ UNCHANGED <<install, call, index, now, signals, timers>>

(***************************************************************************)
(* Spec: the page lifecycle, on the indexes that name at most one URL.     *)
(***************************************************************************)
Init == InitWith({idx \in IndexPool : Cardinality(IndexUrls(idx)) <= 1})

Next ==
    \/ Advance
    \/ TrefsInserted
    \/ SettleTimer
    \/ FallbackTimer
    \/ ResponseArrives
    \/ BodyArrives

Spec == Init /\ [][Next]_vars

(***************************************************************************)
(* SpecLive: the page lifecycle with the progress the browser guarantees:  *)
(* time passes, a timer that is due runs, and every request that was       *)
(* issued is answered or fails.  The 'trefs-inserted' signal may never be  *)
(* dispatched.                                                             *)
(***************************************************************************)
Fairness ==
    /\ WF_vars(Advance)
    /\ WF_vars(SettleTimer)
    /\ WF_vars(FallbackTimer)
    /\ WF_vars(ResponseArrives)
    /\ WF_vars(BodyArrives)

SpecLive == Init /\ [][Next]_vars /\ Fairness

(***************************************************************************)
(* SpecFetch: one pass over every index, started by the fallback because   *)
(* the 'trefs-inserted' signal never arrives.                              *)
(***************************************************************************)
InitFetch == InitWith(IndexPool)

NextFetch ==
    \/ Advance
    \/ FallbackTimer
    \/ ResponseArrives
    \/ BodyArrives

SpecFetch == InitFetch /\ [][NextFetch]_vars

(***************************************************************************)
(* SpecExpiry: the page kept open past the cache timeout, on one index.    *)
(***************************************************************************)
InitExpiry == InitWith({[t |-> "index", xtrefs |-> Pick({1}, 1)]})

NextExpiry ==
    \/ AdvanceLate
    \/ TrefsInserted
    \/ SettleTimer
    \/ FallbackTimer
    \/ ResponseArrives
    \/ BodyArrives

SpecExpiry == InitExpiry /\ [][NextExpiry]_vars

(***************************************************************************)
(* SpecCalls: one helper function called on its own, on an argument drawn  *)
(* from a bounded set.                                                     *)
(***************************************************************************)
\* a child of the list that is neither a dt nor a dd
P(html) == [tag |-> "P", id |-> <<>>, meta |-> FALSE, html |-> html]

PageElements ==
    { DT(<<"term:", "specA", ":", "a">>), DT(<<"term:", "specB", ":", "A">>), DT(<<>>),
      DD(<<"x">>), DD(<<"<b>", "y", "</b>">>), MetaDD(<<"m">>), P(<<"p">>) }

\* the definition lists of at most MaxPageLen children
CallPages == UNION {[1..n -> PageElements] : n \in 0..MaxPageLen}

\* a call that has not returned; args holds the arguments by parameter name
Called(fn, args) == [fn |-> fn, args |-> args, ret |-> Undefined]
Returned(v) == [t |-> "returned", v |-> v]

\* the strings of at most MaxStrLen characters over a two-letter alphabet
CallStrings == UNION {[1..n -> {"a", "b"}] : n \in 0..MaxStrLen}

\* the characters of the HTML given to normalizeContent: letters, whitespace,
\* punctuation, a zero-width space, the markup characters, a character
\* reference and a tag
NormalizeAlphabet == {"a", "B", " ", ".", "zwsp", "<", ">", "&lt;", "<b>"}
NormalizeInputs ==
    {Null, Undefined}
    \cup {Str(s) : s \in UNION {[1..n -> NormalizeAlphabet] : n \in 0..MaxStrLen}}

\* the texts given to escapeHtml and, as old and new content, to createIndicator
TextAlphabet == {"a", "<", ">", "&", "\n"}
Texts == UNION {[1..n -> TextAlphabet] : n \in 0..MaxStrLen}
ShortTexts == {text \in Texts : Len(text) <= 2}

\* the details the validators build (strings, a similarity text) and none
DetailsPool ==
    {NoDetails}
    \cup { [oldContent |-> Str(old), newContent |-> Str(new), similarity |-> sim] :
             old \in ShortTexts, new \in ShortTexts,
             sim \in {Str(toFixed1Percent([num |-> 18, den |-> 20]))} }

\* The download buttons (part_003).  The .service-menu container holds the
\* classes of its children, in order; it is Null when the page has none.
items == <<[cls |-> "button-pdf-download"], [cls |-> "button-docx-download"]>>

buttonExists(children, cls) == \E i \in DOMAIN children : children[i] = cls

\* container.insertBefore(btn, anchor); anchor is the position of the
\* reference child, 0 for null (the node is appended)
insertBefore(children, btn, anchor) ==
    IF anchor = 0 THEN Append(children, btn)
    ELSE SubSeq(children, 1, anchor - 1) \o <<btn>> \o SubSeq(children, anchor, Len(children))

RECURSIVE AddItems(_, _, _, _)
\* items.forEach from item idx on; after an insertion the anchor is the new
\* button, which stands where the old anchor stood
AddItems(children, anchor, exists, idx) ==
    IF idx > Len(items) THEN children
    ELSE IF ~exists[idx] \/ buttonExists(children, items[idx].cls)
         THEN AddItems(children, anchor, exists, idx + 1)
    ELSE AddItems(insertBefore(children, items[idx].cls, anchor),
                  IF anchor = 0 THEN Len(children) + 1 ELSE anchor,
                  exists, idx + 1)

\* addButtons, from the resumption after the HEAD requests: exists holds
\* their results
addButtons(container, exists) ==
    IF container.t = "null" THEN container
    ELSE [container EXCEPT !.children =
             AddItems(container.children,
                      IF container.children = <<>> THEN 0 ELSE 1, exists, 1)]

MenuChildren == {"button-pdf-download", "button-docx-download", "menu-item"}
ServiceMenu(children) == [t |-> "element", children |-> children]
Containers ==
    {Null} \cup {ServiceMenu(c) : c \in UNION {[1..n -> MenuChildren] : n \in 0..2}}

\* prepare-tref.js.  A markdown file is the sequence of its lines; a line
\* that starts with '[[tref:' holds the comma-separated parts of its marker,
\* any other line is text.  xtrefs is the list read from xtrefs-data.json.
TrefLine(parts) == [t |-> "tref", parts |-> parts]
TextLine == [t |-> "text"]
SourceFile(lines) == [t |-> "source", lines |-> lines]

getLocalXTrefContent(xtrefs, externalSpec, term) ==
    LET matching == {k \in DOMAIN xtrefs : /\ xtrefs[k].externalSpec = externalSpec
                                           /\ xtrefs[k].term = term}
    IN IF matching = {} THEN Null
       ELSE LET first == xtrefs[CHOOSE k \in matching : \A j \in matching : k <= j]
            IN [t |-> "found", content |-> first.content, commitHash |-> first.commitHash]

\* content.replace(/\[\[def: .*?\]\]:/g, '')
StripDefs(content) == SelectSeq(content, LAMBDA tok : tok # "[[def: x]]:")

\* what fs.writeFileSync puts in place of the file
WrittenFile(parts, found) ==
    [ t |-> "generated", marker |-> parts, notice |-> TRUE,
      commitHash |-> found.commitHash, content |-> StripDefs(found.content) ]

RECURSIVE ProcessLines(_, _, _, _)
\* the loop over the lines read from the file; file is what the file holds
\* now.  A marker without an entry throws at line 74 and ends the loop.
ProcessLines(lines, i, file, xtrefs) ==
    IF i > Len(lines) THEN file
    ELSE IF lines[i].t # "tref" THEN ProcessLines(lines, i + 1, file, xtrefs)
    ELSE LET result == [k \in DOMAIN lines[i].parts |-> trim(lines[i].parts[k])]
             found == getLocalXTrefContent(xtrefs, result[1], result[2])
         IN IF found = Null THEN file
            ELSE ProcessLines(lines, i + 1, WrittenFile(lines[i].parts, found), xtrefs)

\* prepareTref on one markdown file
prepareTref(lines, xtrefs) == ProcessLines(lines, 1, SourceFile(lines), xtrefs)

TrefData ==
    << [externalSpec |-> <<"specA">>, term |-> <<"a">>, commitHash |-> "h1",
        content |-> <<"[[def: x]]:", "~ ", "a">>],
       [externalSpec |-> <<"specA">>, term |-> <<"b">>, commitHash |-> "h2",
        content |-> <<"~ ", "b", "[[def: x]]:">>] >>

MarkdownLines ==
    { TextLine, TrefLine(<<(<<"specA">>), (<<" ", "a">>)>>),
      TrefLine(<<(<<"specA">>), (<<"b">>)>>), TrefLine(<<(<<"specA">>), (<<"A">>)>>) }
MarkdownFiles == UNION {[1..n -> MarkdownLines] : n \in 0..MaxPageLen}

\* the texts given to findTextDifferences: short texts of letters, spaces
\* and newlines, and the two definitions of the end-to-end scenario
DiffAlphabet == {"a", " ", "\n"}
DiffTexts ==
    UNION {[1..n -> DiffAlphabet] : n \in 0..MaxStrLen}
    \cup {<<"This is a test definition.">>, <<"This is an updated test definition.">>}

Repeat(ch, n) == [i \in 1..n |-> ch]

\* a cached definition of L letters and a live one that differs from it in
\* its first d letters, for the lengths around the one at which one edit
\* gives a similarity equal to the threshold
ContentLengths == {19, 20, 21}
EditCounts == {0, 1, 2}

ReferenceCase(L, d) ==
    [ liveData |-> [u \in {"u1"} |->
          MapOf(extractTermsFromHtml(
              << DT(<<"term:", "specA", ":", "a">>),
                 DD(Repeat("b", d) \o Repeat("a", L - d)) >>))],
      cachedXtref |-> Entry(<<"specA">>, <<"a">>, "u1",
                            Str(<<"<dd>">> \o Repeat("a", L) \o <<"</dd>">>),
                            <<"xref", "tref">>) ]

\* a cached entry with the given content against a live page that defines
\* the term as 'b'
ContentCase(content) ==
    [ liveData |-> [u \in {"u1"} |->
          MapOf(extractTermsFromHtml(
              <<DT(<<"term:", "specA", ":", "a">>), DD(<<"b">>)>>))],
      cachedXtref |-> Entry(<<"specA">>, <<"a">>, "u1", content, <<"xref", "tref">>) ]

\* cached contents: none, the empty string, markup without text, a text
CachedContents ==
    { Undefined, Str(<<>>), Str(<<"<dd>", "<b>", "</b>", "</dd>">>),
      Str(<<"<dd>", "a", "</dd>">>) }

ReferenceCases ==
    {ReferenceCase(L, d) : L \in ContentLengths, d \in EditCounts}
    \cup {ContentCase(content) : content \in CachedContents}

CallPool ==
    {Called("extractTermsFromHtml", [page |-> page]) : page \in CallPages}
    \cup {Called("validateXref", c) : c \in ReferenceCases}
    \cup {Called("validateTref", c) : c \in ReferenceCases}
    \cup {Called("calculateSimilarity", [str1 |-> a, str2 |-> b]) :
             a \in CallStrings, b \in CallStrings}
    \cup {Called("normalizeContent", [html |-> html]) : html \in NormalizeInputs}
    \cup {Called("escapeHtml", [text |-> text]) : text \in Texts}
    \cup {Called("findTextDifferences", [text1 |-> text1, text2 |-> text2]) :
             text1 \in DiffTexts, text2 \in DiffTexts}
    \cup {Called("findCachedXtrefForXref", [index |-> idx, element |-> Document.xrefs[i]]) :
             idx \in IndexPool, i \in DOMAIN Document.xrefs}
    \cup {Called("findCachedXtrefForTref", [index |-> idx, element |-> Document.trefs[i]]) :
             idx \in IndexPool, i \in DOMAIN Document.trefs}
    \cup {Called("prepareTref", [lines |-> lines]) : lines \in MarkdownFiles}
    \cup {Called("addButtons", [container |-> c, exists |-> <<pdf, docx>>]) :
             c \in Containers, pdf \in BOOLEAN, docx \in BOOLEAN}
    \cup {Called("createIndicator", [type |-> type, details |-> details]) :
             type \in {"error", "missing", "changed", "valid"}, details \in DetailsPool}

InitCalls ==
    /\ index = [t |-> "undefined"]
    /\ xrefs = Document.xrefs
    /\ trefs = Document.trefs
    /\ fetchCache = [u \in Urls |-> Undefined]
    /\ now = 0
    /\ signals = <<>>
    /\ timers = {}
    /\ passes = <<>>
    /\ call \in CallPool
    /\ install = NoInstall

ExtractTerms ==
    /\ call.fn = "extractTermsFromHtml"
    /\ call.ret = Undefined
    /\ call' = [call EXCEPT !.ret = Returned(extractTermsFromHtml(call.args.page))]
    /\ UNCHANGED <<index, xrefs, trefs, fetchCache, now, signals, timers, passes, install>>

Similarity ==
    /\ call.fn = "calculateSimilarity"
    /\ call.ret = Undefined
    /\ call' = [call EXCEPT !.ret = Returned(calculateSimilarity(call.args.str1, call.args.str2))]
    /\ UNCHANGED <<index, xrefs, trefs, fetchCache, now, signals, timers, passes, install>>

ClassifyXref ==
    /\ call.fn = "validateXref"
    /\ call.ret = Undefined
    /\ call' = [call EXCEPT !.ret = Returned(
                   validateXref(Document.xrefs[1], call.args.liveData,
                                call.args.cachedXtref, 1))]
    /\ UNCHANGED <<index, xrefs, trefs, fetchCache, now, signals, timers, passes, install>>

ClassifyTref ==
    /\ call.fn = "validateTref"
    /\ call.ret = Undefined
    /\ call' = [call EXCEPT !.ret = Returned(
                   validateTref(Document.trefs[1], call.args.liveData,
                                call.args.cachedXtref, 1))]
    /\ UNCHANGED <<index, xrefs, trefs, fetchCache, now, signals, timers, passes, install>>

Normalize ==
    /\ call.fn = "normalizeContent"
    /\ call.ret = Undefined
    /\ call' = [call EXCEPT !.ret = Returned(normalizeContent(call.args.html))]
    /\ UNCHANGED <<index, xrefs, trefs, fetchCache, now, signals, timers, passes, install>>

Escape ==
    /\ call.fn = "escapeHtml"
    /\ call.ret = Undefined
    /\ call' = [call EXCEPT !.ret = Returned(escapeHtml(call.args.text))]
    /\ UNCHANGED <<index, xrefs, trefs, fetchCache, now, signals, timers, passes, install>>

CreateIndicator ==
    /\ call.fn = "createIndicator"
    /\ call.ret = Undefined
    /\ call' = [call EXCEPT !.ret =
                   Returned(createIndicator(call.args.type, call.args.details))]
    /\ UNCHANGED <<index, xrefs, trefs, fetchCache, now, signals, timers, passes, install>>

AddButtons ==
    /\ call.fn = "addButtons"
    /\ call.ret = Undefined
    /\ call' = [call EXCEPT !.ret =
                   Returned(addButtons(call.args.container, call.args.exists))]
    /\ UNCHANGED <<index, xrefs, trefs, fetchCache, now, signals, timers, passes, install>>

PrepareTref ==
    /\ call.fn = "prepareTref"
    /\ call.ret = Undefined
    /\ call' = [call EXCEPT !.ret = Returned(prepareTref(call.args.lines, TrefData))]
    /\ UNCHANGED <<index, xrefs, trefs, fetchCache, now, signals, timers, passes, install>>

FindForXref ==
    /\ call.fn = "findCachedXtrefForXref"
    /\ call.ret = Undefined
    /\ call' = [call EXCEPT !.ret =
                   Returned(findCachedXtrefForXref(call.args.index, call.args.element))]
    /\ UNCHANGED <<index, xrefs, trefs, fetchCache, now, signals, timers, passes, install>>

FindForTref ==
    /\ call.fn = "findCachedXtrefForTref"
    /\ call.ret = Undefined
    /\ call' = [call EXCEPT !.ret =
                   Returned(findCachedXtrefForTref(call.args.index, call.args.element))]
    /\ UNCHANGED <<index, xrefs, trefs, fetchCache, now, signals, timers, passes, install>>

TextDifferences ==
    /\ call.fn = "findTextDifferences"
    /\ call.ret = Undefined
    /\ call' = [call EXCEPT !.ret =
                   Returned(findTextDifferences(call.args.text1, call.args.text2))]
    /\ UNCHANGED <<index, xrefs, trefs, fetchCache, now, signals, timers, passes, install>>

NextCalls ==
    \/ ExtractTerms
    \/ Similarity
    \/ ClassifyXref
    \/ ClassifyTref
    \/ Normalize
    \/ Escape
    \/ CreateIndicator
    \/ AddButtons
    \/ PrepareTref
    \/ TextDifferences
    \/ FindForXref
    \/ FindForTref

SpecCalls == InitCalls /\ [][NextCalls]_vars

(***************************************************************************)
(* The post-install script and updateDependencies, cut at the one await.   *)
(***************************************************************************)
Packages == {"spec-up-t", "dotenv"}
Versions == {"1.0.0", "2.0.0"}

\* Object.entries of the remote dependencies, in the order of the JSON text;
\* an object has each key once
DependencyEntries ==
    {<<>>}
    \cup {<<e>> : e \in [name : Packages, version : Versions]}
    \cup {e \in [1..2 -> [name : Packages, version : Versions]] :
             e[1].name # e[2].name}

\* what is at process.cwd()/package.json; dependencies are kept under the
\* object's own keys
Missing == [t |-> "missing"]
Unparsable == [t |-> "unparsable"]
PackageFiles ==
    {Missing, Unparsable, [t |-> "package", dependencies |-> Undefined]}
    \cup {[t |-> "package", dependencies |-> [t |-> "object", entries |-> d]] :
             d \in UNION {[names -> Versions] : names \in SUBSET Packages}}

\* how the request of fetchStarterPackageConfig ends
Responses ==
    {[t |-> "http", status |-> 404], [t |-> "network"], Unparsable,
     [t |-> "config", dependencies |-> Undefined]}
    \cup {[t |-> "config", dependencies |-> [t |-> "object", entries |-> e]] :
             e \in DependencyEntries}

\* fetchStarterPackageConfig: the promise rejects unless a 200 response parses
fetchStarterPackageConfig(response) ==
    IF response.t = "config" THEN response ELSE Rejected

\* one Logger call
Logged(level, msg, detail) == [level |-> level, msg |-> msg, detail |-> detail]
CustomUpdateDone == Logged("success", "Custom update done", <<>>)

\* the for loop over Object.entries(specUpPackage.dependencies)
RECURSIVE UpdateEach(_, _, _)
UpdateEach(entries, i, acc) ==
    IF i > Len(entries) THEN acc
    ELSE LET e == entries[i]
             has == e.name \in DOMAIN acc.dependencies
             currentVersion == IF has THEN acc.dependencies[e.name]
                               ELSE "not installed"
         IN  IF has /\ acc.dependencies[e.name] = e.version
             THEN UpdateEach(entries, i + 1, acc)
             ELSE UpdateEach(entries, i + 1,
                      [dependencies |->
                           [n \in DOMAIN acc.dependencies \cup {e.name} |->
                               IF n = e.name THEN e.version
                               ELSE acc.dependencies[n]],
                       updatedCount |-> acc.updatedCount + 1,
                       log |-> Append(acc.log,
                                  Logged("info", "Updated",
                                         <<e.name, currentVersion, e.version>>))])

\* updateDependencies from the return of its await to its end
updateDependencies(file, log, specUpPackage) ==
    IF specUpPackage = Rejected
    THEN [file |-> file,
          log |-> Append(log, Logged("error", "Error updating dependencies:", <<>>))]
    ELSE IF file = Missing
    THEN [file |-> file,
          log |-> Append(log, Logged("error", "package.json not found at:", <<>>))]
    ELSE IF file = Unparsable
    THEN [file |-> file,
          log |-> Append(log, Logged("error", "Error updating dependencies:", <<>>))]
    ELSE IF specUpPackage.dependencies = Undefined
    THEN [file |-> file,
          log |-> Append(log, Logged("info",
                     "No dependencies found in package.spec-up-t.json", <<>>))]
    ELSE LET own == IF file.dependencies = Undefined
                    THEN [n \in {} |-> "1.0.0"]
                    ELSE file.dependencies.entries
             r == UpdateEach(specUpPackage.dependencies.entries, 1,
                             [dependencies |-> own, updatedCount |-> 0,
                              log |-> log])
         IN  IF r.updatedCount > 0
             THEN [file |-> [t |-> "package",
                             dependencies |-> [t |-> "object",
                                               entries |-> r.dependencies]],
                   log |-> Append(r.log, Logged("success", "Successfully updated",
                                                <<r.updatedCount>>))]
             ELSE [file |-> file,
                   log |-> Append(r.log, Logged("info",
                              "All dependencies are already up to date", <<>>))]

InitInstall ==
    /\ index = [t |-> "undefined"]
    /\ xrefs = Document.xrefs
    /\ trefs = Document.trefs
    /\ fetchCache = [u \in Urls |-> Undefined]
    /\ now = 0
    /\ signals = <<>>
    /\ timers = {}
    /\ passes = <<>>
    /\ call = NoCall
    /\ \E file \in PackageFiles :
          install = [pc |-> "ready", packageJson |-> file,
                     response |-> Undefined, log |-> <<>>]

\* The script runs to its end: customUpdate calls updateDependencies, which
\* runs to its await and hands back a pending promise nobody waits for
Postinstall ==
    /\ install.pc = "ready"
    /\ install' = [install EXCEPT !.pc = "fetching",
                                  !.log = <<Logged("info",
                                              "Fetching latest dependency configuration...",
                                              <<>>),
                                           CustomUpdateDone>>]
    /\ UNCHANGED <<index, xrefs, trefs, fetchCache, now, signals, timers, passes, call>>

\* The request ends and updateDependencies resumes in a later turn
ConfigFetched ==
    /\ install.pc = "fetching"
    /\ \E response \in Responses :
          LET r == updateDependencies(install.packageJson, install.log,
                                      fetchStarterPackageConfig(response))
          IN  install' = [pc |-> "finished", packageJson |-> r.file,
                          response |-> response, log |-> r.log]
    /\ UNCHANGED <<index, xrefs, trefs, fetchCache, now, signals, timers, passes, call>>

NextInstall ==
    \/ Postinstall
    \/ ConfigFetched

SpecInstall == InitInstall /\ [][NextInstall]_vars

(***************************************************************************)
(* Properties.                                                             *)
(***************************************************************************)
\* the passes that went past the collection of the external specs
FetchingPasses == {p \in DOMAIN passes : passes[p].phase # "noop"}

\* C1: when the 'trefs-inserted' signal is dispatched at most once, at most one
\* validation pass is started in a page load (counted here: only the passes that
\* found an external spec to fetch)
C1_AtMostOnePassPerLoad ==
    Len(signals) <= 1 => Cardinality(FetchingPasses) <= 1

\* C2: a pass started through the listener starts no earlier than the settle
\* delay after the signal that scheduled it; any other pass is the fallback's,
\* of which there is at most one, and starts no earlier than three seconds
\* after initializeValidator
C2_StartOrdering ==
    /\ \A p \in DOMAIN passes :
          \/ /\ passes[p].cause = "settle"
             /\ passes[p].sig \in DOMAIN signals
             /\ passes[p].start >= signals[passes[p].sig] + SettleDelay
          \/ /\ passes[p].cause = "fallback"
             /\ passes[p].start >= FallbackDelay
    /\ Cardinality({p \in DOMAIN passes : passes[p].cause = "fallback"}) <= 1

\* a pass started by the settle timer before the fallback, and the fallback's pass
C2_BothStarts ==
    \E p, q \in DOMAIN passes :
        /\ passes[p].cause = "settle"
        /\ passes[p].start < FallbackDelay
        /\ passes[q].cause = "fallback"

\* the elements that carry an indicator inserted by pass p
InsertedBy(p) ==
    {<<"xref", i>> : i \in {j \in DOMAIN xrefs :
        \E k \in DOMAIN xrefs[j].after :
            IsIndicator(xrefs[j].after[k]) /\ xrefs[j].after[k].by = p}}
    \cup
    {<<"tref", i>> : i \in {j \in DOMAIN trefs :
        \E k \in DOMAIN trefs[j].span :
            IsIndicator(trefs[j].span[k]) /\ trefs[j].span[k].by = p}}

\* C3: a pass that suspends has issued the fetch of every descriptor, and as
\* long as one of its fetches has not settled it stays suspended: it has
\* classified no reference element and has inserted no indicator
C3_FetchBarrier ==
    \A p \in DOMAIN passes :
        /\ passes[p].phase # "noop" =>
              \A i \in DOMAIN passes[p].specs :
                  passes[p].specs[i].url \in DOMAIN passes[p].fetch
        /\ (\E u \in DOMAIN passes[p].fetch : passes[p].fetch[u].st # "settled") =>
              /\ passes[p].phase = "fetching"
              /\ passes[p].xout = <<>>
              /\ passes[p].tout = <<>>
              /\ passes[p].event = Undefined
              /\ InsertedBy(p) = {}

\* a pass held back by one fetch while another of its fetches has settled
C3_HeldBack ==
    \E p \in DOMAIN passes : \E u, v \in DOMAIN passes[p].fetch :
        /\ passes[p].fetch[u].st = "settled"
        /\ passes[p].fetch[v].st # "settled"

\* the distinct non-empty ghPageUrl values of the reference index
IndexedUrls ==
    IF index.t = "index"
    THEN {index.xtrefs[k].ghPageUrl : k \in DOMAIN index.xtrefs} \ {""}
    ELSE {}

\* C4: the descriptors of a pass are one per distinct non-empty ghPageUrl of
\* the index, each named after the first entry carrying its URL; the pass
\* calls fetchExternalSpec once per descriptor; without a descriptor the pass
\* ends with no fetch and the document as it was
C4_SpecCollection ==
    \A p \in DOMAIN passes :
        LET specs == passes[p].specs
        IN /\ {specs[i].url : i \in DOMAIN specs} = IndexedUrls
           /\ \A i, j \in DOMAIN specs : specs[i].url = specs[j].url => i = j
           /\ \A i \in DOMAIN specs : \E k \in DOMAIN index.xtrefs :
                 /\ index.xtrefs[k].ghPageUrl = specs[i].url
                 /\ index.xtrefs[k].externalSpec = specs[i].specName
                 /\ \A j \in 1..(k - 1) : index.xtrefs[j].ghPageUrl # specs[i].url
           /\ Len(passes[p].calls) = Len(specs)
           /\ \A i \in DOMAIN specs : passes[p].calls[i] = specs[i].url
           /\ IndexedUrls = {} =>
                 /\ passes[p].phase = "noop"
                 /\ passes[p].calls = <<>>
                 /\ DOMAIN passes[p].fetch = {}
                 /\ xrefs = Document.xrefs
                 /\ trefs = Document.trefs

\* a pass over an index in which two entries share their ghPageUrl
C4_SharedUrl ==
    /\ index.t = "index"
    /\ \E p \in DOMAIN passes : \E j, k \in DOMAIN index.xtrefs :
        /\ j < k
        /\ index.xtrefs[j].ghPageUrl = index.xtrefs[k].ghPageUrl
        /\ index.xtrefs[j].externalSpec # index.xtrefs[k].externalSpec
        /\ Len(passes[p].specs) = 1
        /\ passes[p].phase = "done"

\* C5: a fetchExternalSpec call never settles as a rejection; one that fails
\* at the request (non-2xx, transport) or at the body (read, parse) settles
\* with null and leaves the fetch cache as it was; the cache changes only when
\* a body has been fetched and parsed, and then by the entry of that URL
C5_FetchNeverRejects ==
    [][ /\ \A p \in DOMAIN passes : \A u \in DOMAIN passes[p].fetch :
              (passes[p].fetch[u].st # "settled" /\ passes'[p].fetch[u].st = "settled") =>
                 /\ passes'[p].fetch[u].result.t \in {"null", "map"}
                 /\ passes[p].fetch[u].st = "request" =>
                       passes'[p].fetch[u].result.t = "null"
                 /\ passes'[p].fetch[u].result.t = "null" => fetchCache' = fetchCache
                 /\ passes'[p].fetch[u].result.t = "map" =>
                       fetchCache' = [fetchCache EXCEPT ![u] =
                           [ t |-> "entry", timestamp |-> now,
                             data |-> passes'[p].fetch[u].result.v ]]
        /\ fetchCache' # fetchCache =>
              \E p \in DOMAIN passes : \E u \in DOMAIN passes[p].fetch :
                 /\ passes[p].fetch[u].st = "body"
                 /\ passes'[p].fetch[u].st = "settled"
                 /\ passes'[p].fetch[u].result.t = "map"
      ]_vars

\* a fetch that failed although the cache held an entry of its URL, expired
\* when the fetch was called, and the entry is still there
C5_FailedOverExpiredEntry ==
    \E p \in DOMAIN passes : \E u \in DOMAIN passes[p].fetch :
        /\ passes[p].fetch[u].st = "settled"
        /\ passes[p].fetch[u].result.t = "null"
        /\ fetchCache[u].t = "entry"
        /\ passes[p].start - fetchCache[u].timestamp >= CacheTimeout

\* the live data a pass would hold if ghPageUrl were the only URL it fetched
OwnLiveData(pass, ghPageUrl) == [u \in {ghPageUrl} |-> pass.fetch[u].result]

\* C6: no pass is aborted by a failed fetch: once all its fetches have settled
\* the pass is complete; and in a complete pass with a failed fetch, a
\* reference whose entry names a URL that did not fail is left as it would be
\* had only its own URL been fetched
C6_PartialFailureIsolation ==
    \A p \in DOMAIN passes :
        LET pass == passes[p]
        IN /\ pass.phase # "failed"
           /\ (pass.phase # "noop" /\ \A u \in DOMAIN pass.fetch : pass.fetch[u].st = "settled")
                 => pass.phase = "done"
           /\ (pass.phase = "done" /\ \E u \in DOMAIN pass.fetch : pass.fetch[u].result.t = "null") =>
                 /\ \A i \in DOMAIN xrefs :
                       LET c == findCachedXtrefForXref(index, Document.xrefs[i])
                       IN (/\ c.t = "entry"
                           /\ c.ghPageUrl # ""
                           /\ pass.fetch[c.ghPageUrl].result.t # "null") =>
                              validateXref(Document.xrefs[i], OwnLiveData(pass, c.ghPageUrl), c, p)
                                 = [el |-> xrefs[i], outcome |-> pass.xout[i]]
                 /\ \A i \in DOMAIN trefs :
                       LET c == findCachedXtrefForTref(index, Document.trefs[i])
                       IN (/\ c.t = "entry"
                           /\ c.ghPageUrl # ""
                           /\ pass.fetch[c.ghPageUrl].result.t # "null") =>
                              validateTref(Document.trefs[i], OwnLiveData(pass, c.ghPageUrl), c, p)
                                 = [el |-> trefs[i], outcome |-> pass.tout[i]]

\* a complete pass in which one fetch failed and a reference of another URL
\* was classified from the live page
C6_OneFailedOneClassified ==
    \E p \in DOMAIN passes :
        /\ passes[p].phase = "done"
        /\ \E u \in DOMAIN passes[p].fetch : passes[p].fetch[u].result.t = "null"
        /\ \E i \in DOMAIN passes[p].tout : passes[p].tout[i] \in {"valid", "changed", "missing"}
        /\ \E i \in DOMAIN passes[p].xout : passes[p].xout[i] = "error"

\* the outcome the rule assigns to an entry under the live data
Classify(cachedXtref, liveData) ==
    LET live == liveData[cachedXtref.ghPageUrl]
        key == toLowerCase(cachedXtref.term)
    IN IF live.t = "null" THEN "error"
       ELSE IF live.t # "map" THEN "unclassified"
       ELSE IF key \notin DOMAIN live.v THEN "missing"
       ELSE LET s == calculateSimilarity(normalizeContent(cachedXtref.content),
                                         normalizeContent(Str(live.v[key].rawContent)))
            IN IF s.num * 100 < SimilarityThresholdPct * s.den THEN "changed" ELSE "valid"

\* C7: in a complete pass every xref and every tref resolved to an entry that
\* has a ghPageUrl has the outcome of the rule Error / Missing / Changed /
\* Valid, taken in this order, and is never left unclassified
C7_ClassificationRule ==
    \A p \in DOMAIN passes : passes[p].phase = "done" =>
        /\ \A i \in DOMAIN xrefs :
              LET c == findCachedXtrefForXref(index, xrefs[i])
              IN (c.t = "entry" /\ c.ghPageUrl # "") =>
                    /\ c.ghPageUrl \in DOMAIN passes[p].fetch
                    /\ passes[p].xout[i] \in {"error", "missing", "changed", "valid"}
                    /\ passes[p].xout[i] = Classify(c, LiveData(passes[p]))
        /\ \A i \in DOMAIN trefs :
              LET c == findCachedXtrefForTref(index, trefs[i])
              IN (c.t = "entry" /\ c.ghPageUrl # "") =>
                    /\ c.ghPageUrl \in DOMAIN passes[p].fetch
                    /\ passes[p].tout[i] \in {"error", "missing", "changed", "valid"}
                    /\ passes[p].tout[i] = Classify(c, LiveData(passes[p]))

\* a complete pass that found one reference Valid and another one Changed
C7_ValidAndChanged ==
    \E p \in DOMAIN passes :
        /\ passes[p].phase = "done"
        /\ \E i \in DOMAIN passes[p].xout : passes[p].xout[i] = "valid"
        /\ \E i \in DOMAIN passes[p].tout : passes[p].tout[i] = "changed"

\* an indicator of the given type among the elements elems
HasIndicatorOfType(elems, type) ==
    \E k \in DOMAIN elems : IsIndicator(elems[k]) /\ elems[k].type = type

\* C8: once a pass in which the fetch of a URL failed is complete, every xref
\* resolved to an entry of that URL has an Error indicator as its next element
\* sibling, and every tref resolved to such an entry has one inside its nested
\* term-name element (the trefs that have this element are considered)
C8_ErrorSurfacing ==
    \A p \in DOMAIN passes : passes[p].phase = "done" =>
        \A u \in DOMAIN passes[p].fetch : passes[p].fetch[u].result.t = "null" =>
            /\ \A i \in DOMAIN xrefs :
                  LET c == findCachedXtrefForXref(index, xrefs[i])
                  IN (c.t = "entry" /\ c.ghPageUrl = u) =>
                        /\ xrefs[i].after # <<>>
                        /\ HasIndicatorOfType(<<xrefs[i].after[1]>>, "error")
            /\ \A i \in DOMAIN trefs :
                  LET c == findCachedXtrefForTref(index, trefs[i])
                  IN (c.t = "entry" /\ c.ghPageUrl = u /\ trefs[i].hasTermSpan) =>
                        HasIndicatorOfType(trefs[i].span, "error")

\* every reference the pass resolved and classified was found Valid
AllResolvedValid(pass) ==
    /\ \A i \in DOMAIN pass.xout : pass.xout[i] \in {"valid", "unresolved", "skipped"}
    /\ \A i \in DOMAIN pass.tout : pass.tout[i] \in {"valid", "unresolved", "skipped"}
    /\ \/ \E i \in DOMAIN pass.xout : pass.xout[i] = "valid"
       \/ \E i \in DOMAIN pass.tout : pass.tout[i] = "valid"

\* C9: no indicator of the Valid type is ever in the document, and when a pass
\* completes with every resolved reference Valid the document holds no
\* indicator at all
C9_ValidSuppression ==
    [][ /\ \A i \in DOMAIN xrefs' : ~HasIndicatorOfType(xrefs'[i].after, "valid")
        /\ \A i \in DOMAIN trefs' : ~HasIndicatorOfType(trefs'[i].span, "valid")
        /\ \A p \in DOMAIN passes' :
              (/\ p \in DOMAIN passes => passes[p].phase # "done"
               /\ passes'[p].phase = "done"
               /\ AllResolvedValid(passes'[p]))
                 => ~HasIndicator(xrefs', trefs')
      ]_vars

IndicatorTypes == {"error", "missing", "changed", "valid"}

\* the indicators two passes may build
IndicatorPool ==
    {By(createIndicator(type, NoDetails), p) : type \in IndicatorTypes, p \in 1..2}

IndicatorsIn(elems) == Cardinality({k \in DOMAIN elems : IsIndicator(elems[k])})

\* C10: on every element of the document as the passes have left it, and for
\* any two indicators, the second of two insertions changes nothing, and after
\* them the insertion point (the next sibling of an anchor, the nested
\* term-name element of a tref) holds exactly one indicator; a tref without a
\* nested term-name element is left as it is
C10_IdempotentInsertion ==
    \A a, b \in IndicatorPool :
        /\ \A i \in DOMAIN xrefs :
              LET once == insertIndicatorAfterElement(xrefs[i], a)
                  twice == insertIndicatorAfterElement(once, b)
              IN /\ twice = once
                 /\ IsIndicator(twice.after[1])
                 /\ IndicatorsIn(twice.after) = 1
        /\ \A i \in DOMAIN trefs :
              LET once == insertIndicatorIntoTref(trefs[i], a)
                  twice == insertIndicatorIntoTref(once, b)
              IN /\ twice = once
                 /\ IF trefs[i].hasTermSpan
                    THEN IndicatorsIn(twice.span) = 1
                    ELSE twice = trefs[i]

Flagged == {"error", "missing", "changed"}

\* two complete passes have both flagged the same xref and the same tref, and
\* each of the two elements holds one indicator
C10_InsertedTwice ==
    \E p, q \in DOMAIN passes :
        /\ p < q
        /\ passes[p].phase = "done"
        /\ passes[q].phase = "done"
        /\ \E i \in DOMAIN xrefs :
              /\ passes[p].xout[i] \in Flagged
              /\ passes[q].xout[i] \in Flagged
              /\ IndicatorsIn(xrefs[i].after) = 1
        /\ \E i \in DOMAIN trefs :
              /\ passes[p].tout[i] \in Flagged
              /\ passes[q].tout[i] \in Flagged
              /\ IndicatorsIn(trefs[i].span) = 1

\* C11: a pass that calls fetchExternalSpec for a URL gets the cached mapping,
\* with no request issued, exactly when the cache holds an entry of the URL
\* younger than the cache timeout; otherwise (no entry, or an age equal to or
\* above the timeout) a request is issued; and a refetch that succeeds leaves
\* the entry with the new mapping and the time of its arrival
C11_CacheHitAndExpiry ==
    [][ /\ \A p \in DOMAIN passes' \ DOMAIN passes : \A u \in DOMAIN passes'[p].fetch :
              IF fetchCache[u].t = "entry" /\ now - fetchCache[u].timestamp < CacheTimeout
              THEN passes'[p].fetch[u] =
                      [st |-> "settled", result |-> [t |-> "map", v |-> fetchCache[u].data]]
              ELSE passes'[p].fetch[u].st = "request"
        /\ \A p \in DOMAIN passes : \A u \in DOMAIN passes[p].fetch :
              (/\ passes[p].fetch[u].st = "body"
               /\ passes'[p].fetch[u].st = "settled"
               /\ passes'[p].fetch[u].result.t = "map") =>
                  fetchCache'[u] = [ t |-> "entry", timestamp |-> now,
                                     data |-> passes'[p].fetch[u].result.v ]
      ]_vars

\* a request issued for a URL once its entry had reached the timeout, answered
\* by a page other than the cached one: the entry holds the new mapping
C11_RefetchedAtTimeout ==
    \E p, q \in DOMAIN passes : \E u \in DOMAIN passes[p].fetch :
        /\ q < p
        /\ passes[q].phase = "done"
        /\ passes[q].fetch[u].result.t = "map"
        /\ passes[p].fetch[u].st = "settled"
        /\ passes[p].fetch[u].result.t = "map"
        /\ passes[p].fetch[u].result # passes[q].fetch[u].result
        /\ fetchCache[u].t = "entry"
        /\ fetchCache[u].data = passes[p].fetch[u].result.v
        /\ fetchCache[u].timestamp >= passes[q].start + CacheTimeout

\* C12: once a fetch of a URL has failed in a page load, no step of the same
\* page load issues a request for that URL
C12_NoRetries ==
    [][ \A p \in DOMAIN passes' \ DOMAIN passes : \A u \in DOMAIN passes'[p].fetch :
            passes'[p].fetch[u].st = "request" =>
               ~\E q \in DOMAIN passes :
                    /\ u \in DOMAIN passes[q].fetch
                    /\ passes[q].fetch[u].st = "settled"
                    /\ passes[q].fetch[u].result.t = "null"
      ]_vars

\* the xref has no entry: its href is not #term:<spec>:<term>, or no entry of
\* the index has that spec and (case-insensitively) that term
XrefUnmatched(element) ==
    \/ index.t # "index"
    \/ MatchLocalHref(element.href).t # "match"
    \/ ~\E k \in DOMAIN index.xtrefs :
          /\ index.xtrefs[k].externalSpec = MatchLocalHref(element.href).specName
          /\ toLowerCase(index.xtrefs[k].term) =
                toLowerCase(MatchLocalHref(element.href).termName)

\* the tref has no entry: no original term, or no tref entry of that term
TrefUnmatched(element) ==
    \/ index.t # "index"
    \/ element.originalTerm.t # "string"
    \/ ~\E k \in DOMAIN index.xtrefs :
          /\ toLowerCase(index.xtrefs[k].term) = toLowerCase(element.originalTerm.v)
          /\ \E f \in DOMAIN index.xtrefs[k].sourceFiles :
                index.xtrefs[k].sourceFiles[f] = "tref"

\* C13: an xref or tref that resolves to no index entry is left as the
\* document had it, with no indicator, by every pass and under every fetch
\* result; the passes skip it and none of them is aborted
C13_LookupFailureSkipped ==
    /\ \A i \in DOMAIN xrefs : XrefUnmatched(Document.xrefs[i]) =>
          /\ xrefs[i] = Document.xrefs[i]
          /\ \A p \in DOMAIN passes :
                passes[p].phase = "done" => passes[p].xout[i] = "unresolved"
    /\ \A i \in DOMAIN trefs : TrefUnmatched(Document.trefs[i]) =>
          /\ trefs[i] = Document.trefs[i]
          /\ \A p \in DOMAIN passes :
                passes[p].phase = "done" => passes[p].tout[i] = "unresolved"
    /\ \A p \in DOMAIN passes : passes[p].phase # "failed"

\* a complete pass with a failed fetch that flagged a reference, next to an
\* xref with a well-formed href and a tref with an original term that have no
\* entry
C13_SkippedBesideFlagged ==
    \E p \in DOMAIN passes :
        /\ passes[p].phase = "done"
        /\ \E u \in DOMAIN passes[p].fetch : passes[p].fetch[u].result.t = "null"
        /\ InsertedBy(p) # {}
        /\ \E i \in DOMAIN xrefs :
              /\ MatchLocalHref(xrefs[i].href).t = "match"
              /\ passes[p].xout[i] = "unresolved"
        /\ \E i \in DOMAIN trefs :
              /\ trefs[i].originalTerm.t = "string"
              /\ passes[p].tout[i] = "unresolved"

\* the first tref entry of the index whose term is name, case-insensitively
TrefEntryNamed(name) ==
    IF index.t # "index" THEN Null
    ELSE Find(index.xtrefs,
              {k \in DOMAIN index.xtrefs :
                  /\ toLowerCase(index.xtrefs[k].term) = toLowerCase(name)
                  /\ \E f \in DOMAIN index.xtrefs[k].sourceFiles :
                        index.xtrefs[k].sourceFiles[f] = "tref"})

\* C14: for a tref without a data-original-term attribute on itself, a
\* descendant or an ancestor, findCachedXtrefForTref finds the entry that the
\* last colon-delimited segment of the element's identifier names
C14_TrefTermFallback ==
    \A i \in DOMAIN trefs : trefs[i].originalTerm.t # "string" =>
        LET named == TrefEntryNamed(LastSegment(trefs[i].id))
            found == findCachedXtrefForTref(index, trefs[i])
        IN IF named.t = "entry" THEN found = named ELSE found.t # "entry"

\* the dt elements of a page that carry a term: identifier
Headings(page) == {k \in DOMAIN page : page[k].tag = "DT" /\ page[k].id # <<>>}

HeadingKey(page, k) == toLowerCase(LastSegment(page[k].id))

ExtractReturned == call.fn = "extractTermsFromHtml" /\ call.ret # Undefined

\* C15 as stated: the map returned for a list with N term headings has
\* exactly N entries, keyed by the lowercased last segments of the identifiers
C15_OneEntryPerHeading ==
    ExtractReturned =>
        /\ Cardinality(DOMAIN call.ret.v) = Cardinality(Headings(call.args.page))
        /\ DOMAIN call.ret.v = {HeadingKey(call.args.page, k) : k \in Headings(call.args.page)}

\* C15, amended: the map returned has one entry per distinct lowercased last
\* segment among the identifiers of the term headings, the entry of a key
\* being that of the last heading with this key; it has N entries exactly when
\* the keys of the N headings are pairwise distinct, and none when the list
\* has no term heading
C15_OneEntryPerKey ==
    ExtractReturned =>
        LET page == call.args.page
            terms == call.ret.v
        IN /\ DOMAIN terms = {HeadingKey(page, k) : k \in Headings(page)}
           /\ \A k \in Headings(page) :
                 (\A j \in Headings(page) : HeadingKey(page, j) = HeadingKey(page, k) => j <= k)
                    => terms[HeadingKey(page, k)].termId = page[k].id
           /\ (Cardinality(DOMAIN terms) = Cardinality(Headings(page))) <=>
                 \A j, k \in Headings(page) :
                     HeadingKey(page, j) = HeadingKey(page, k) => j = k
           /\ Headings(page) = {} => terms = EmptyMap

\* the map returned for a list in which two headings have the same key
C15_SharedKey ==
    /\ ExtractReturned
    /\ Cardinality(Headings(call.args.page)) = 2
    /\ Cardinality(DOMAIN call.ret.v) = 1

\* the position of the first sibling after the dt at k that is not a dd
RunEnd(page, k) ==
    CHOOSE e \in (k + 1)..(Len(page) + 1) :
        /\ e = Len(page) + 1 \/ page[e].tag # "DD"
        /\ \A j \in (k + 1)..(e - 1) : page[j].tag = "DD"

\* the dd siblings of that run that are not meta-info wrappers, in document order
Captured(page, k) ==
    SelectSeq(SubSeq(page, k + 1, RunEnd(page, k) - 1), LAMBDA d : ~d.meta)

\* C16: the definition stored under a key is made, in document order, of all
\* dd siblings that follow the (last) heading of the key up to the first
\* sibling that is not a dd, the meta-info wrappers among them left out: their
\* markup joined as rawContent, their text joined and trimmed as content
C16_DefinitionCapture ==
    ExtractReturned =>
        \A k \in Headings(call.args.page) :
            (\A j \in Headings(call.args.page) :
                HeadingKey(call.args.page, j) = HeadingKey(call.args.page, k) => j <= k) =>
               LET dds == Captured(call.args.page, k)
                   term == call.ret.v[HeadingKey(call.args.page, k)]
               IN /\ term.rawContent = Join([i \in DOMAIN dds |-> outerHTML(dds[i])], "\n")
                  /\ term.content =
                        trim(Join([i \in DOMAIN dds |-> textContent(dds[i].html)], "\n"))

\* a heading followed by a meta-info wrapper and then a dd, which is captured
C16_DdAfterMetaInfo ==
    /\ ExtractReturned
    /\ \E k \in Headings(call.args.page) :
          /\ k + 2 <= Len(call.args.page)
          /\ call.args.page[k + 1].tag = "DD"
          /\ call.args.page[k + 1].meta
          /\ call.args.page[k + 2].tag = "DD"
          /\ ~call.args.page[k + 2].meta
          /\ call.ret.v[HeadingKey(call.args.page, k)].rawContent = outerHTML(call.args.page[k + 2])

SimilarityReturned == call.fn = "calculateSimilarity" /\ call.ret # Undefined

\* C17: the similarity returned for (a, b) is, as a ratio, the similarity of
\* (b, a), whatever the lengths of a and b
C17_SimilaritySymmetric ==
    SimilarityReturned =>
        LET swapped == calculateSimilarity(call.args.str2, call.args.str1)
        IN call.ret.v.num * swapped.den = swapped.num * call.ret.v.den

\* the similarity of two different strings of the same length that share a part
C17_EqualLengths ==
    /\ SimilarityReturned
    /\ Len(call.args.str1) = Len(call.args.str2)
    /\ call.args.str1 # call.args.str2
    /\ call.ret.v.num > 0
    /\ call.ret.v.num < call.ret.v.den

ClassifyReturned == call.fn \in {"validateXref", "validateTref"} /\ call.ret # Undefined

\* the similarity of the cached and the live definition of a classification call
CallSimilarity ==
    LET cached == call.args.cachedXtref
        liveTerm == call.args.liveData[cached.ghPageUrl].v[toLowerCase(cached.term)]
    IN calculateSimilarity(normalizeContent(cached.content),
                           normalizeContent(Str(liveTerm.rawContent)))

\* C18: an xref or tref whose term is in the live mapping is classified
\* Changed when its similarity is strictly below 0.95 and Valid otherwise, a
\* similarity equal to 0.95 included
C18_ThresholdBoundary ==
    ClassifyReturned =>
        /\ call.ret.v.outcome \in {"changed", "valid"}
        /\ call.ret.v.outcome = "changed" <=>
              CallSimilarity.num * 100 < SimilarityThresholdPct * CallSimilarity.den
        /\ CallSimilarity.num * 100 >= SimilarityThresholdPct * CallSimilarity.den =>
              call.ret.v.outcome = "valid"

\* a reference whose definitions of 20 letters differ by one edit, found Valid
C18_AtThreshold ==
    /\ ClassifyReturned
    /\ CallSimilarity = [num |-> 19, den |-> 20]
    /\ call.ret.v.outcome = "valid"

NormalizeReturned == call.fn = "normalizeContent" /\ call.ret # Undefined

\* C19: normalizeContent applied to the text it returned gives that text
\* again, for every input; an absent or empty input gives the empty string
C19_NormalizationIdempotent ==
    NormalizeReturned =>
        /\ call.ret.t = "returned"
        /\ normalizeContent(Str(call.ret.v)) = call.ret.v
        /\ Falsy(call.args.html) => call.ret.v = <<>>

\* a text in which nothing can be read as markup or as a character reference
PlainText(text) == \A i \in DOMAIN text : text[i] \notin {"<", "&"}

\* C19, amended: normalizeContent applied to the text it returned gives that
\* text again whenever the text holds no '<' and no '&'; an absent or empty
\* input gives the empty string
C19_IdempotentOnPlainText ==
    NormalizeReturned =>
        /\ call.ret.t = "returned"
        /\ PlainText(call.ret.v) => normalizeContent(Str(call.ret.v)) = call.ret.v
        /\ Falsy(call.args.html) => call.ret.v = <<>>

\* an input that the normalization changed, with a plain text as its result
C19_NormalizedPlainText ==
    /\ NormalizeReturned
    /\ call.args.html.t = "string"
    /\ call.ret.v # <<>>
    /\ call.ret.v # call.args.html.v
    /\ PlainText(call.ret.v)
    /\ \E i \in DOMAIN call.ret.v : call.ret.v[i] = ">"
    /\ normalizeContent(Str(call.ret.v)) = call.ret.v

EscapeReturned == call.fn = "escapeHtml" /\ call.ret # Undefined
IndicatorReturned == call.fn = "createIndicator" /\ call.ret # Undefined

\* no token of s is a literal '<' or '>' or a tag
NoMarkup(s) == \A i \in DOMAIN s : s[i] \notin {"<", ">"} \cup Tags

\* the content of the element of the panel opened by the tag open
Slot(panel, open) ==
    LET first == CHOOSE i \in DOMAIN panel : panel[i] = open
        last == CHOOSE j \in DOMAIN panel :
                    /\ j > first
                    /\ panel[j] = "</div>"
                    /\ \A k \in (first + 1)..(j - 1) : panel[k] # "</div>"
    IN SubSeq(panel, first + 1, last - 1)

\* the texts a changed indicator shows for the details it was given
Shown(details) ==
    LET diff == findTextDifferences(details.oldContent.v, details.newContent.v)
    IN IF diff.hasDifferences
       THEN [old |-> diff.oldUnique, new |-> diff.newUnique]
       ELSE [old |-> details.oldContent.v, new |-> details.newContent.v]

InsertedIndicator ==
    IF call.fn = "validateXref" THEN call.ret.v.el.after[1]
    ELSE call.ret.v.el.span[Len(call.ret.v.el.span)]

\* C21: an indicator built by createIndicator, on its own or for a reference
\* that a validator flags, has the detail panel exactly when its kind is
\* changed or missing
C21_DetailPanel ==
    /\ ClassifyReturned /\ call.ret.v.outcome \in {"error", "missing", "changed"} =>
          /\ InsertedIndicator.type = call.ret.v.outcome
          /\ InsertedIndicator.hasDetails <=>
                InsertedIndicator.type \in {"changed", "missing"}
          /\ InsertedIndicator.hasDetails <=> InsertedIndicator.panel # <<>>
    /\ IndicatorReturned /\ call.args.type \in {"error", "valid", "missing"} =>
          (call.ret.v.hasDetails <=> call.args.type = "missing")

\* the pass p has broadcast 'external-refs-validated'
Broadcast(p) == Len(passes) >= p /\ passes[p].event # Undefined

\* C22: every pass that is started eventually broadcasts the completion event
C22_CompletionSignal ==
    \A p \in 1..(MaxSignals + 1) : (Len(passes) >= p) ~> Broadcast(p)

AddButtonsReturned == call.fn = "addButtons" /\ call.ret # Undefined

\* C23: when both files exist and the menu holds neither button, addButtons
\* leaves the menu as the PDF button, the DOCX button and then the children
\* it had before
C23_DownloadButtonOrder ==
    AddButtonsReturned /\ call.args.container.t = "element"
        /\ call.args.exists = <<TRUE, TRUE>>
        /\ ~buttonExists(call.args.container.children, "button-pdf-download")
        /\ ~buttonExists(call.args.container.children, "button-docx-download")
    => call.ret.v.children = <<"button-pdf-download", "button-docx-download">>
                                \o call.args.container.children

PrepareTrefReturned == call.fn = "prepareTref" /\ call.ret # Undefined

\* the entry of the index that the marker of line i names exactly
MarkerEntry(i) ==
    getLocalXTrefContent(TrefData, trim(call.args.lines[i].parts[1]), trim(call.args.lines[i].parts[2]))

\* C24: for every marker line of the file whose pair matches an index entry,
\* the rewritten file holds that marker, the notice, the commit hash of the
\* entry and its content without the definition markers
C24_PrepareTrefRewrite ==
    PrepareTrefReturned =>
        \A i \in DOMAIN call.args.lines :
            call.args.lines[i].t = "tref" /\ MarkerEntry(i) # Null =>
                /\ call.ret.v.t = "generated"
                /\ call.ret.v.marker = call.args.lines[i].parts
                /\ call.ret.v.notice
                /\ call.ret.v.commitHash = MarkerEntry(i).commitHash
                /\ call.ret.v.content = StripDefs(MarkerEntry(i).content)
                /\ \A k \in DOMAIN call.ret.v.content : call.ret.v.content[k] # "[[def: x]]:"

\* the fetchExternalSpec call of pass p for url u has missed the cache and
\* has not returned yet
InFlight(p, u) == u \in DOMAIN passes[p].fetch /\ passes[p].fetch[u].st \in {"request", "body"}

\* C25: while a call is between its cache-miss read and its own cache write,
\* no other call for the same URL is in flight and the entry of the URL is
\* not written
C25_CacheNonInterleaving ==
    \A p \in DOMAIN passes : \A u \in Urls :
        InFlight(p, u) =>
            /\ \A q \in DOMAIN passes : q # p => ~InFlight(q, u)
            /\ ~(fetchCache[u].t = "entry" /\ fetchCache[u].timestamp >= passes[p].start)

MatcherReturned ==
    call.fn \in {"findCachedXtrefForXref", "findCachedXtrefForTref"} /\ call.ret # Undefined

NotFound(v) == v.t \in {"null", "undefined"}

\* the positions of the index entries that qualify for the element of the call
Qualifying ==
    IF call.args.index.t # "index" THEN {}
    ELSE LET xt == call.args.index.xtrefs
         IN IF call.fn = "findCachedXtrefForXref"
            THEN LET m == MatchLocalHref(call.args.element.href)
                 IN IF m.t # "match" THEN {}
                    ELSE {i \in DOMAIN xt : /\ xt[i].externalSpec = m.specName
                                            /\ toLowerCase(xt[i].term) = toLowerCase(m.termName)}
            ELSE IF call.args.element.originalTerm.t # "string" THEN {}
            ELSE {i \in DOMAIN xt :
                    /\ toLowerCase(xt[i].term) = toLowerCase(call.args.element.originalTerm.v)
                    /\ \E k \in DOMAIN xt[i].sourceFiles : xt[i].sourceFiles[k] = "tref"}

\* C26: a matcher returns 'not found' when no entry qualifies (an href that
\* does not match the pattern included) and otherwise the qualifying entry
\* that no other qualifying entry precedes in the index
C26_FirstQualifyingEntry ==
    MatcherReturned =>
        IF Qualifying = {} THEN NotFound(call.ret.v)
        ELSE \E i \in Qualifying :
                /\ call.ret.v = call.args.index.xtrefs[i]
                /\ \A j \in Qualifying : i <= j

\* a tref matcher call on an index whose first entry has the term but no tref
\* source file and whose second entry, of another spec than the element's
\* identifier names, qualifies
C26_SecondEntryReturned ==
    /\ MatcherReturned
    /\ call.fn = "findCachedXtrefForTref"
    /\ Qualifying = {2}
    /\ toLowerCase(call.args.index.xtrefs[1].term) = toLowerCase(call.args.element.originalTerm.v)
    /\ call.ret.v = call.args.index.xtrefs[2]
    /\ call.ret.v.externalSpec # <<call.args.element.id[2]>>

RECURSIVE EditDistance(_, _)
\* the Levenshtein distance by its defining recurrence: the least number of
\* unit-cost substitutions, insertions and deletions that turn a into b
EditDistance(a, b) ==
    IF a = <<>> THEN Len(b)
    ELSE IF b = <<>> THEN Len(a)
    ELSE IF a[1] = b[1] THEN EditDistance(Tail(a), Tail(b))
    ELSE LET after == { EditDistance(Tail(a), Tail(b)), EditDistance(Tail(a), b),
                        EditDistance(a, Tail(b)) }
         IN 1 + CHOOSE m \in after : \A n \in after : m <= n

\* C27: the similarity is 1 for equal strings, 0 when exactly one string is
\* empty, and otherwise (L - d) / L for the longer length L and the edit
\* distance d; it always lies between 0 and 1
C27_SimilarityValue ==
    SimilarityReturned =>
        LET a == call.args.str1
            b == call.args.str2
            L == IF Len(a) > Len(b) THEN Len(a) ELSE Len(b)
            r == call.ret.v
        IN /\ r.den > 0 /\ 0 <= r.num /\ r.num <= r.den
           /\ levenshteinDistance(a, b) = EditDistance(a, b)
           /\ IF a = b THEN r.num = r.den
              ELSE IF a = <<>> \/ b = <<>> THEN r.num = 0
              ELSE r.num * L = (L - EditDistance(a, b)) * r.den

\* two non-empty strings of different lengths whose similarity is strictly
\* between 0 and 1
C27_PartialMatch ==
    /\ SimilarityReturned
    /\ call.args.str1 # <<>> /\ call.args.str2 # <<>>
    /\ Len(call.args.str1) # Len(call.args.str2)
    /\ EditDistance(call.args.str1, call.args.str2) >= 2
    /\ 0 < call.ret.v.num /\ call.ret.v.num < call.ret.v.den

DiffReturned == call.fn = "findTextDifferences" /\ call.ret # Undefined

\* the first positions of the lines of text that are not blank: a line is a
\* longest stretch without a newline
LineStarts(text) ==
    {i \in DOMAIN text : /\ text[i] # "\n"
                         /\ (i = 1 \/ text[i - 1] = "\n")}
LineFrom(text, i) ==
    LET ends == {j \in i..Len(text) : /\ \A k \in i..j : text[k] # "\n"
                                      /\ (j = Len(text) \/ text[j + 1] = "\n")}
    IN SubSeq(text, i, CHOOSE j \in ends : TRUE)
NonBlank(line) == \E k \in DOMAIN line : line[k] \notin Whitespace

RECURSIVE InOrder(_, _)
\* the lines that start at the positions starts, by increasing position
InOrder(text, starts) ==
    IF starts = {} THEN <<>>
    ELSE LET i == CHOOSE s \in starts : \A s2 \in starts : s <= s2
         IN <<LineFrom(text, i)>> \o InOrder(text, starts \ {i})

NonBlankLines(text) ==
    InOrder(text, {i \in LineStarts(text) : NonBlank(LineFrom(text, i))})

\* the lines of text that are no line of other, in their order
OnlyIn(text, other) ==
    LET others == NonBlankLines(other)
    IN SelectSeq(NonBlankLines(text),
                 LAMBDA l : \A k \in DOMAIN others : others[k] # l)

\* C28: oldUnique is the non-blank cached lines that are no live line,
\* newUnique the non-blank live lines that are no cached line, each in its
\* order and joined by newlines, an empty side being the placeholder;
\* hasDifferences tells whether one of the two sides is non-empty
C28_DiffExtractor ==
    DiffReturned =>
        LET old == OnlyIn(call.args.text1, call.args.text2)
            new == OnlyIn(call.args.text2, call.args.text1)
        IN /\ call.ret.v.oldUnique = IF old = <<>> THEN <<"(no removed content)">>
                                     ELSE Join(old, "\n")
           /\ call.ret.v.newUnique = IF new = <<>> THEN <<"(no added content)">>
                                     ELSE Join(new, "\n")
           /\ call.ret.v.hasDifferences <=> (old # <<>> \/ new # <<>>)

\* the end-to-end scenario: each of the two definitions is reported on its side
C28_ScenarioLines ==
    /\ DiffReturned
    /\ call.args.text1 = <<"This is a test definition.">>
    /\ call.args.text2 = <<"This is an updated test definition.">>
    /\ call.ret.v.oldUnique = <<"This is a test definition.">>
    /\ call.ret.v.newUnique = <<"This is an updated test definition.">>
    /\ call.ret.v.hasDifferences

\* C29: whatever passes have run and however they overlapped, every xref
\* anchor has at most one indicator as its next sibling, none further on
\* among the siblings the passes can reach, and every tref term-name element
\* holds at most one indicator
C29_AtMostOneIndicator ==
    /\ \A i \in DOMAIN xrefs : IndicatorsIn(xrefs[i].after) <= 1
    /\ \A i \in DOMAIN trefs : IndicatorsIn(trefs[i].span) <= 1

\* two passes overlapped, their fetch results differed, each classified the
\* same anchor as flagged in its own way, and the anchor holds one indicator
C29_OverlappingPassesDiffer ==
    /\ Len(passes) >= 2
    /\ passes[1].phase = "done" /\ passes[2].phase = "done"
    \* the second pass missed the cache although the first pass filled it:
    \* it started while the first pass was awaiting its fetch
    /\ \E u \in DOMAIN passes[1].fetch :
          /\ u \in DOMAIN passes[2].fetch
          /\ passes[1].fetch[u].result.t = "map"
          /\ passes[1].fetch[u].result # passes[2].fetch[u].result
    /\ \E i \in DOMAIN xrefs :
          /\ passes[1].xout[i] \in Flagged
          /\ passes[2].xout[i] \in Flagged
          /\ passes[1].xout[i] # passes[2].xout[i]
          /\ IndicatorsIn(xrefs[i].after) = 1

(***************************************************************************)
(* C30: custom-update ordering. Wherever 'Custom update done' stands in    *)
(* the log, updateDependencies has finished before it: an earlier entry    *)
(* of the log is the outcome of the update, that is the success message    *)
(* written after package.json was saved, or the message of the way the     *)
(* update ended without saving.                                            *)
(***************************************************************************)
Outcome(m) ==
    m.msg \in {"Successfully updated", "Error updating dependencies:",
               "package.json not found at:",
               "No dependencies found in package.spec-up-t.json",
               "All dependencies are already up to date"}

C30_CustomUpdateOrdering ==
    \A i \in DOMAIN install.log :
       install.log[i] = CustomUpdateDone =>
          \E j \in 1..(i - 1) : Outcome(install.log[j])
=============================================================================
